---- MODULE Spec2Model ----
(***************************************************************************)
(* Model of the JPEG-2000 (JP2) metadata reader and rewriter of Exiv2,     *)
(* src/src/jp2image.cpp: Jp2Image::readMetadata, Jp2Image::writeMetadata,  *)
(* Jp2Image::doWriteMetadata, Jp2Image::encodeJp2Header and isJp2Type.     *)
(*                                                                         *)
(* A file is a sequence of bytes (0..255).  The image object holds the     *)
(* Exif, IPTC and XMP stores, the raw XMP packet, the ICC profile and the  *)
(* pixel size.  One action is one iteration of a top-level box loop.       *)
(***************************************************************************)
EXTENDS Integers, Sequences, FiniteSets, TLC

VARIABLES
    file,            \* content of io_ (the image's own stream)
    pos,             \* io_->tell()
    isopen,          \* io_->isopen()
    pc,              \* "idle" | "read" | "write" | "print"
    writeXmpFromPacket, \* Image::writeXmpFromPacket_
    err,             \* outcome of the last finished operation
    exifData,        \* Image::exifData_
    iptcData,        \* Image::iptcData_
    xmpData,         \* Image::xmpData_
    xmpPacket,       \* Image::xmpPacket_
    iccProfile,      \* Image::iccProfile_
    pixelWidth,      \* Image::pixelWidth_
    pixelHeight,     \* Image::pixelHeight_
    byteOrder,       \* Image::byteOrder_
    boxes,           \* readMetadata: size_t boxes
    lastBoxTypeRead, \* readMetadata: uint32_t lastBoxTypeRead
    boxSignatureFound, \* readMetadata, printStructure: bool boxSignatureFound
    boxFileTypeFound,
    ihdr,            \* readMetadata: Jp2ImageHeaderBox ihdr, as its 14 bytes
    out,             \* doWriteMetadata: content of outIo (the temporary sink);
                     \* printStructure: the bytes written to std::ostream& out
    option,          \* printStructure: PrintStructureOption option
    gen,             \* the lengths of a box doWriteMetadata generates from a
                     \* store of a given size
    walk,            \* history: top-level headers decoded by the running walk
    hist             \* history: one record per finished operation

vars == <<file, pos, isopen, pc, writeXmpFromPacket, err, exifData, iptcData, xmpData,
          xmpPacket, iccProfile, pixelWidth, pixelHeight, byteOrder, boxes,
          lastBoxTypeRead, boxSignatureFound, boxFileTypeFound, ihdr, out,
          option, gen, walk, hist>>

imageVars == <<exifData, iptcData, xmpData, xmpPacket, iccProfile,
               pixelWidth, pixelHeight, byteOrder>>

readLocals == <<boxes, lastBoxTypeRead, boxSignatureFound, boxFileTypeFound, ihdr>>

----------------------------------------------------------------------------
(* Bounds of the model. *)

\* number of boxes that follow the file prefix in an input file
MaxBoxes == 3

\* number of operations the embedder calls on one image
MaxOps == 5

\* the most top-level boxes beyond boxem in a stream
MaxOver == 2

\* number of boxes that follow the signature in a stream on which all
\* operations are called
MaxFew == 1

----------------------------------------------------------------------------
(* Program constants. *)

boxSize == 8
kJp2BoxTypeSignature == 1783636000
kJp2BoxTypeFileTypeBox == 1718909296
kJp2BoxTypeHeader == 1785737832
kJp2BoxTypeImageHeader == 1768449138
kJp2BoxTypeColorSpec == 1668246642
kJp2BoxTypeUuid == 1970628964
kJp2BoxTypeClose == 1785737827

kJp2UuidExif == <<74, 112, 103, 84, 105, 102, 102, 69, 120, 105, 102, 45, 62, 74, 80, 50>>
kJp2UuidIptc == <<51, 199, 164, 210, 184, 29, 71, 35, 160, 186, 241, 163, 224, 151, 173, 56>>
kJp2UuidXmp == <<190, 122, 207, 203, 151, 169, 66, 232, 156, 113, 153, 148, 145, 227, 175, 172>>

Jp2Signature == <<0, 0, 0, 12, 106, 80, 32, 32, 13, 10, 135, 10>>

\* readMetadata: size_t boxem = 1000
boxem == 1000

\* sizeof(Internal::Jp2UuidBox)
uuidSize == 16

\* sizeof(Internal::Jp2ImageHeaderBox)
ihdrSize == 14

----------------------------------------------------------------------------
(* Bytes. *)

Min(a, b) == IF a < b THEN a ELSE b

\* n bytes of s starting at offset p (0-based); fewer when s ends before
Bytes(s, p, n) == SubSeq(s, p + 1, Min(p + n, Len(s)))

\* getLong / getULong(buf + p, bigEndian).  A value of 2^31 or more is
\* represented by 2^31 - 1: the program only compares such a value with
\* sizes of the file, all far below it, and every comparison comes out the same.
getLong(s, p) ==
    IF s[p + 1] >= 128 THEN 127 * 16777216 + 16777215
    ELSE s[p + 1] * 16777216 + s[p + 2] * 65536 + s[p + 3] * 256 + s[p + 4]

\* ul2Data(buf, n, bigEndian): the four bytes written
ul2Data(n) ==
    <<(n \div 16777216) % 256, (n \div 65536) % 256, (n \div 256) % 256, n % 256>>

RECURSIVE Zeros(_)
Zeros(n) == IF n <= 0 THEN <<>> ELSE <<0>> \o Zeros(n - 1)

\* BasicIo::read at position p for n bytes: the bytes delivered
IoRead(f, p, n) == Bytes(f, p, n)

\* BasicIo::seek to absolute position q: 0 when it succeeds
IoSeekOk(f, q) == q >= 0 /\ q <= Len(f)

----------------------------------------------------------------------------
(* The external codecs, by their byte contracts. *)

TiffHeaderII == <<73, 73, 42, 0, 8, 0, 0, 0>>
TiffHeaderMM == <<77, 77, 0, 42, 0, 0, 0, 8>>

\* TiffParser::decode: recognises "II 2A 00" or "MM 00 2A"; the entries follow
\* the 8-byte header
TiffValid(b) ==
    /\ Len(b) >= 8
    /\ \/ SubSeq(b, 1, 4) = SubSeq(TiffHeaderII, 1, 4)
       \/ SubSeq(b, 1, 4) = SubSeq(TiffHeaderMM, 1, 4)
TiffDecode(b) == IF TiffValid(b) THEN SubSeq(b, 9, Len(b)) ELSE <<>>
TiffByteOrder(b) ==
    IF ~TiffValid(b) THEN "invalid"
    ELSE IF b[1] = 73 THEN "little" ELSE "big"

\* ExifParser::encode(blob, littleEndian, exifData_)
ExifEncode(store) == IF store = <<>> THEN <<>> ELSE TiffHeaderII \o store

\* IptcParser::decode: non-zero on failure; a dataset starts with the marker 0x1c
IptcFails(b) == b # <<>> /\ b[1] # 28
IptcDecode(b) == IF b = <<>> \/ IptcFails(b) THEN <<>> ELSE Tail(b)
\* IptcParser::encode
IptcEncode(store) == IF store = <<>> THEN <<>> ELSE <<28>> \o store

\* XmpParser::decode: non-zero on failure; a packet is '<' ... '>'
XmpFails(p) == ~(Len(p) >= 2 /\ p[1] = 60 /\ p[Len(p)] = 62)
XmpDecode(p) == IF XmpFails(p) THEN <<>> ELSE SubSeq(p, 2, Len(p) - 1)
\* XmpParser::encode(xmpPacket_, xmpData_)
XmpEncode(store) == IF store = <<>> THEN <<>> ELSE <<60>> \o store \o <<62>>

\* Internal::isValidBoxFileType: brand 'jp2 ', minor version 0, and 'jp2 '
\* in the compatibility list
brandJp2 == <<106, 112, 50, 32>>
isValidBoxFileType(boxData) ==
    /\ Len(boxData) >= 8
    /\ (Len(boxData) - 8) % 4 = 0
    /\ SubSeq(boxData, 1, 4) = brandJp2
    /\ SubSeq(boxData, 5, 8) = <<0, 0, 0, 0>>
    /\ \E i \in 0..((Len(boxData) - 8) \div 4 - 1) :
           SubSeq(boxData, 9 + 4 * i, 12 + 4 * i) = brandJp2

\* Image::iccProfileDefined
iccProfileDefined(icc) == Len(icc) > 0

----------------------------------------------------------------------------
(* Jp2Image::readMetadata. *)

\* The state a walk carries: the image members it writes, its locals, the
\* stream position p and res, "none" while the walk goes on.  sub lists the
\* sub-box headers the pass has read, allocs the buffers it has asked for
\* with a size taken from the stream and calls the decoders it has invoked,
\* each with the bytes handed over.
Carry ==
    [exif |-> exifData, iptc |-> iptcData, xmp |-> xmpData, packet |-> xmpPacket,
     icc |-> iccProfile, pw |-> pixelWidth, ph |-> pixelHeight, bo |-> byteOrder,
     boxes |-> boxes, last |-> lastBoxTypeRead, sig |-> boxSignatureFound,
     ftyp |-> boxFileTypeFound, ihdr |-> ihdr, p |-> pos, res |-> "none",
     sub |-> <<>>, allocs |-> <<>>, calls |-> <<>>]

\* A buffer of size bytes asked for while avail bytes of the stream are left
Alloc(s, size, avail) ==
    [s EXCEPT !.allocs = Append(s.allocs, [size |-> size, avail |-> avail])]

\* size_t(length) - n for length < n: the difference wraps around to a value
\* near 2^64, represented like the values of getLong above 2^31
Wrapped == 127 * 16777216 + 16777215

Fail(s, kind) == [s EXCEPT !.res = kind]

\* A decoder invoked on bytes
Call(s, codec, bytes) ==
    [s EXCEPT !.calls = Append(s.calls, [codec |-> codec, bytes |-> bytes])]

\* boxes_check(b, m)
boxes_check(b, m) == b <= m

\* Image::setIccProfile: the bytes are stored as they are
setIccProfile(s, icc) == [s EXCEPT !.icc = icc]

Reverse(b) == [i \in 1..Len(b) |-> b[Len(b) + 1 - i]]

\* The colour specification branch of the sub-box loop; p is the position
\* after the sub-box header.
ReadColorSpec(f, s, p, length) ==
    LET pad == 3
        data_length == length + 8
        data == IoRead(f, p, data_length)
        iccLength == getLong(data, pad)
        a == Alloc(s, data_length, Len(f) - p)
    IN  IF data_length > Len(f) - p THEN Fail(s, "CorruptedMetadata")
        ELSE IF iccLength > Len(data) - pad THEN Fail(a, "CorruptedMetadata")
        ELSE setIccProfile(a, SubSeq(data, pad + 1, pad + iccLength))

\* ReadImageHeader that stores the width and the height before it tests the
\* compression type
ReadImageHeaderAssignsFirst(f, s, p) ==
    LET got == IoRead(f, p, ihdrSize)
        raw == got \o SubSeq(s.ihdr, Len(got) + 1, ihdrSize)
        imageHeight == getLong(raw, 0)
        imageWidth == getLong(raw, 4)
        c == raw[12]
        mem == Reverse(SubSeq(raw, 1, 4)) \o Reverse(SubSeq(raw, 5, 8))
               \o Reverse(SubSeq(raw, 9, 10)) \o SubSeq(raw, 11, 14)
        s1 == [s EXCEPT !.ihdr = mem, !.pw = imageWidth, !.ph = imageHeight]
    IN  IF c # 7 THEN Fail(s1, "CorruptedMetadata") ELSE s1

\* The image header branch of the sub-box loop.  The read may be short; the
\* struct then keeps the bytes it held, and the three integer fields were
\* byte-swapped in place by the previous pass (little-endian host).
ReadImageHeader(f, s, p) ==
    LET got == IoRead(f, p, ihdrSize)
        raw == got \o SubSeq(s.ihdr, Len(got) + 1, ihdrSize)
        imageHeight == getLong(raw, 0)
        imageWidth == getLong(raw, 4)
        c == raw[12]
        mem == Reverse(SubSeq(raw, 1, 4)) \o Reverse(SubSeq(raw, 5, 8))
               \o Reverse(SubSeq(raw, 9, 10)) \o SubSeq(raw, 11, 14)
    IN  IF c # 7 THEN Fail([s EXCEPT !.ihdr = mem], "CorruptedMetadata")
        ELSE [s EXCEPT !.ihdr = mem, !.pw = imageWidth, !.ph = imageHeight]

\* The loop over the sub-boxes of the JP2 Header box; restore is the position
\* of the next sub-box header.
RECURSIVE SubBoxLoop(_, _, _)
SubBoxLoop(f, s, restore) ==
    LET hdr == IoRead(f, restore, boxSize)
    IN  IF Len(hdr) # boxSize \/ SubSeq(hdr, 1, 4) = <<0, 0, 0, 0>> THEN s
        ELSE
        LET length == getLong(hdr, 0)
            type == getLong(hdr, 4)
            p == restore + boxSize
            s1 == [s EXCEPT !.boxes = s.boxes + 1,
                            !.sub = Append(s.sub, [start |-> restore, length |-> length,
                                                   type |-> type, pw |-> s.pw,
                                                   ph |-> s.ph])]
            s2 == IF type = kJp2BoxTypeColorSpec /\ length # 15
                  THEN ReadColorSpec(f, s1, p, length)
                  ELSE s1
            s3 == IF s2.res = "none" /\ type = kJp2BoxTypeImageHeader
                  THEN ReadImageHeader(f, s2, p)
                  ELSE s2
        IN  IF ~boxes_check(s.boxes, boxem) THEN Fail(s1, "CorruptedMetadata")
            ELSE IF length > Len(f) THEN Fail(s1, "CorruptedMetadata")
            ELSE IF s3.res # "none" THEN s3
            ELSE IF ~IoSeekOk(f, restore + length) THEN Fail(s3, "CorruptedMetadata")
            ELSE SubBoxLoop(f, s3, restore + length)

\* Index (0-based) of the first occurrence of pat in b at an offset below
\* limit, or -1
RECURSIVE FindFrom(_, _, _, _)
FindFrom(b, pat, i, limit) ==
    IF i >= limit THEN -1
    ELSE IF Bytes(b, i, Len(pat)) = pat THEN i
    ELSE FindFrom(b, pat, i + 1, limit)

exifHeader == <<69, 120, 105, 102, 0, 0>>

\* The Exif branch of the uuid box: rawData is the payload after the UUID.
ReadExif(s, rawData) ==
    IF Len(rawData) > 8
    THEN LET tiff == rawData[1] = rawData[2] /\ (rawData[1] = 73 \/ rawData[1] = 77)
             i == FindFrom(rawData, exifHeader, 0, Len(rawData) - Len(exifHeader))
             at == IF tiff THEN 0 ELSE IF i >= 0 THEN i + Len(exifHeader) ELSE -1
             tail == SubSeq(rawData, at + 1, Len(rawData))
         IN  IF at >= 0
             THEN [Call(s, "tiff", tail) EXCEPT !.exif = TiffDecode(tail),
                                                !.bo = TiffByteOrder(tail)]
             ELSE s
    ELSE [s EXCEPT !.exif = <<>>]

\* The IPTC branch of the uuid box.
ReadIptc(s, rawData) == [Call(s, "iptc", rawData) EXCEPT !.iptc = IptcDecode(rawData)]

\* ReadXmp that keeps the bytes in front of the first '<'
ReadXmpUntrimmed(s, rawData) ==
    IF Len(rawData) > 0
    THEN [Call(s, "xmp", rawData) EXCEPT !.packet = rawData, !.xmp = XmpDecode(rawData)]
    ELSE [s EXCEPT !.packet = rawData]

\* The XMP branch of the uuid box.
ReadXmp(s, rawData) ==
    LET idx == FindFrom(rawData, <<60>>, 0, Len(rawData))
        packet == IF idx > 0 THEN SubSeq(rawData, idx + 1, Len(rawData)) ELSE rawData
    IN  IF Len(packet) > 0
        THEN [Call(s, "xmp", packet) EXCEPT !.packet = packet, !.xmp = XmpDecode(packet)]
        ELSE [s EXCEPT !.packet = packet]

\* case kJp2BoxTypeUuid; position is the offset after the box header
ReadUuid(f, s, position, length) ==
    LET uuid == IoRead(f, position, uuidSize)
        known == uuid = kJp2UuidExif \/ uuid = kJp2UuidIptc \/ uuid = kJp2UuidXmp
        want == length - (boxSize + uuidSize)
        rawData == IoRead(f, position + uuidSize, want)
        a == Alloc(s, want, Len(f) - (position + uuidSize))
    IN  IF Len(uuid) # uuidSize \/ ~known THEN s
        ELSE IF length < boxSize + uuidSize THEN Fail(s, "CorruptedMetadata")
        ELSE IF Len(rawData) # want THEN Fail(a, "InputDataReadFailed")
        ELSE IF uuid = kJp2UuidExif THEN ReadExif(a, rawData)
        ELSE IF uuid = kJp2UuidIptc THEN ReadIptc(a, rawData)
        ELSE ReadXmp(a, rawData)

\* case kJp2BoxTypeFileTypeBox.  A length below the header size makes the
\* vector size wrap around; the allocation then throws.
ReadFileType(f, s, position, length) ==
    LET size == IF length < boxSize THEN Wrapped ELSE length - boxSize
        a == Alloc([s EXCEPT !.ftyp = TRUE], size, Len(f) - position)
    IN  IF s.ftyp \/ s.last # kJp2BoxTypeSignature THEN Fail(s, "CorruptedMetadata")
        ELSE IF length < boxSize THEN Fail(a, "bad_alloc")
        ELSE IF ~isValidBoxFileType(IoRead(f, position, length - boxSize))
             THEN Fail(a, "CorruptedMetadata")
        ELSE a

\* EnvelopeOk without the comparison against the size of the stream
EnvelopeUnchecked(f, start, length) == TRUE

\* The envelope check of a top-level box header read at offset start:
\* enforce(box.length <= sizeof(box) + io_->size() - io_->tell())
EnvelopeOk(f, start, length) == length <= boxSize + Len(f) - (start + boxSize)

\* The switch on box.type
ReadDispatch(f, s, position, length, type) ==
    IF type = kJp2BoxTypeSignature
    THEN IF s.sig THEN Fail(s, "CorruptedMetadata") ELSE [s EXCEPT !.sig = TRUE]
    ELSE IF type = kJp2BoxTypeFileTypeBox THEN ReadFileType(f, s, position, length)
    ELSE IF type = kJp2BoxTypeHeader THEN SubBoxLoop(f, s, position)
    ELSE IF type = kJp2BoxTypeUuid THEN ReadUuid(f, s, position, length)
    ELSE s

\* ReadBoxStep that seeks to the start of the box it has read
ReadBoxStepBack(f, s) ==
    LET hdr == IoRead(f, s.p, boxSize)
        position == s.p + boxSize
        length == getLong(hdr, 0)
        type == getLong(hdr, 4)
        s1 == [s EXCEPT !.boxes = s.boxes + 1]
        s2 == ReadDispatch(f, s1, position, length, type)
        next == position - boxSize
    IN  IF Len(hdr) # boxSize THEN [s EXCEPT !.res = "ok", !.p = s.p + Len(hdr)]
        ELSE IF ~boxes_check(s.boxes, boxem) THEN Fail(s1, "CorruptedMetadata")
        ELSE IF ~EnvelopeOk(f, s.p, length)
             THEN Fail([s1 EXCEPT !.p = position], "CorruptedMetadata")
        ELSE IF length = 0 THEN [s1 EXCEPT !.res = "ok", !.p = position]
        ELSE IF s2.res # "none" THEN s2
        ELSE IF ~IoSeekOk(f, next) THEN Fail(s2, "FailedToReadImageData")
        ELSE [s2 EXCEPT !.last = type, !.p = next]

\* One pass of the top-level loop of readMetadata, from the state s with the
\* stream at s.p.  res is "none" when the loop goes on, "ok" when the walk
\* ends normally, and the error kind when it throws.
ReadBoxStep(f, s) ==
    LET hdr == IoRead(f, s.p, boxSize)
        position == s.p + boxSize
        length == getLong(hdr, 0)
        type == getLong(hdr, 4)
        s1 == [s EXCEPT !.boxes = s.boxes + 1]
        s2 == ReadDispatch(f, s1, position, length, type)
        next == position - boxSize + length
    IN  IF Len(hdr) # boxSize THEN [s EXCEPT !.res = "ok", !.p = s.p + Len(hdr)]
        ELSE IF ~boxes_check(s.boxes, boxem) THEN Fail(s1, "CorruptedMetadata")
        ELSE IF ~EnvelopeOk(f, s.p, length)
             THEN Fail([s1 EXCEPT !.p = position], "CorruptedMetadata")
        ELSE IF length = 0 THEN [s1 EXCEPT !.res = "ok", !.p = position]
        ELSE IF s2.res # "none" THEN s2
        ELSE IF ~IoSeekOk(f, next) THEN Fail(s2, "FailedToReadImageData")
        ELSE [s2 EXCEPT !.last = type, !.p = next]

\* isJp2Type that takes every stream of 12 bytes or more for a JP2 stream
isJp2TypeAny(f, p, advance) ==
    LET len == 12
        buf == IoRead(f, p, len)
    IN  IF Len(buf) # len THEN [matched |-> FALSE, p |-> p + Len(buf)]
        ELSE IF ~advance THEN [matched |-> TRUE, p |-> p]
        ELSE [matched |-> TRUE, p |-> p + len]

\* isJp2Type(iIo, advance) with the stream at offset p: the result and the
\* position left.  A short read returns before the seek back.
isJp2Type(f, p, advance) ==
    LET len == 12
        buf == IoRead(f, p, len)
        matched == buf = Jp2Signature
    IN  IF Len(buf) # len THEN [matched |-> FALSE, p |-> p + Len(buf)]
        ELSE IF ~advance \/ ~matched THEN [matched |-> matched, p |-> p + len - len]
        ELSE [matched |-> matched, p |-> p + len]

----------------------------------------------------------------------------
(* Jp2Image::printStructure.  The options kpsBasic and kpsRecursive add the  *)
(* table text, which formatting code outside this file produces; the walk   *)
(* is the one of the other walking options.                                 *)

\* the state a pass of printStructure carries: the stream position p, the
\* local boxSignatureFound, the bytes written to out by the pass, the
\* sub-box headers it has read and res as in readMetadata
PrintCarry ==
    [p |-> pos, sig |-> boxSignatureFound, emit |-> <<>>, sub |-> <<>>, res |-> "none"]

Emit(s, bytes) == [s EXCEPT !.emit = s.emit \o bytes]

\* The checks of a sub-box of type ihdr; data is its payload.
PrintImageHeader(s, length, data) ==
    IF length # 22 THEN Fail(s, "CorruptedMetadata")
    ELSE IF data[12] # 7 \/ data[13] > 1 \/ data[14] > 1 THEN Fail(s, "CorruptedMetadata")
    ELSE s

\* The checks of a sub-box of type colr; data is its payload.
PrintColorSpec(s, data, opt) ==
    LET pad == 3
        METH == data[1]
        enumCS == getLong(data, 3)
        iccLength == getLong(data, pad)
    IN  IF ~(Len(data) >= pad + 4) THEN Fail(s, "CorruptedMetadata")
        ELSE IF METH = 1
        THEN IF enumCS # 16 /\ enumCS # 17 THEN Fail(s, "CorruptedMetadata") ELSE s
        ELSE IF ~(iccLength <= Len(data) - pad) THEN Fail(s, "CorruptedMetadata")
        ELSE IF opt = "kpsIccProfile" THEN Emit(s, Bytes(data, pad, iccLength))
        ELSE s

\* The loop over the sub-boxes of the JP2 Header box: at is the position of
\* the next sub-box header and end is position + box.length.
RECURSIVE PrintSubBoxLoop(_, _, _, _, _)
PrintSubBoxLoop(f, s, at, end, opt) ==
    LET hdr == IoRead(f, at, boxSize)
        tell == at + boxSize
        length == getLong(hdr, 0)
        type == getLong(hdr, 4)
        data == IoRead(f, tell, length - boxSize)
        s1 == [s EXCEPT !.sub = Append(s.sub, [start |-> at, length |-> length,
                                               type |-> type])]
        s2 == IF type = kJp2BoxTypeImageHeader THEN PrintImageHeader(s1, length, data)
              ELSE IF type = kJp2BoxTypeColorSpec THEN PrintColorSpec(s1, data, opt)
              ELSE s1
    IN  IF Len(hdr) # boxSize \/ ~(tell < end) THEN s
        ELSE IF length < boxSize \/ length > Len(f) - tell
             THEN Fail(s1, "CorruptedMetadata")
        ELSE IF s2.res # "none" THEN s2
        ELSE PrintSubBoxLoop(f, s2, tell + Len(data), end, opt)

\* case kJp2BoxTypeFileTypeBox
PrintFileType(f, s, position, length) ==
    IF length < boxSize THEN Fail(s, "bad_alloc")
    ELSE IF ~isValidBoxFileType(IoRead(f, position, length - boxSize))
         THEN Fail(s, "CorruptedMetadata")
    ELSE s

\* case kJp2BoxTypeUuid
PrintUuid(f, s, position, length, opt) ==
    LET uuid == IoRead(f, position, uuidSize)
        want == length - uuidSize - boxSize
        rawData == IoRead(f, position + uuidSize, want)
    IN  IF Len(uuid) # uuidSize THEN s
        ELSE IF ~(length >= uuidSize + boxSize) THEN Fail(s, "CorruptedMetadata")
        ELSE IF Len(rawData) # want THEN Fail(s, "InputDataReadFailed")
        ELSE IF uuid = kJp2UuidXmp /\ opt = "kpsXMP" THEN Emit(s, rawData)
        ELSE s

\* The switch on box.type
PrintDispatch(f, s, position, length, type, opt) ==
    IF type = kJp2BoxTypeSignature
    THEN IF s.sig THEN Fail(s, "CorruptedMetadata") ELSE [s EXCEPT !.sig = TRUE]
    ELSE IF type = kJp2BoxTypeFileTypeBox THEN PrintFileType(f, s, position, length)
    ELSE IF type = kJp2BoxTypeHeader
         THEN PrintSubBoxLoop(f, s, position, position + length, opt)
    ELSE IF type = kJp2BoxTypeUuid THEN PrintUuid(f, s, position, length, opt)
    ELSE s

\* PrintBoxStep that treats a jp2c box like a box of any other type
PrintBoxStepThroughClose(f, s, opt) ==
    LET hdr == IoRead(f, s.p, boxSize)
        position == s.p + boxSize
        length == getLong(hdr, 0)
        type == getLong(hdr, 4)
        s2 == PrintDispatch(f, s, position, length, type, opt)
        next == position - boxSize + length
    IN  IF Len(hdr) # boxSize THEN [s EXCEPT !.res = "ok", !.p = s.p + Len(hdr)]
        ELSE IF ~EnvelopeOk(f, s.p, length)
             THEN Fail([s EXCEPT !.p = position], "CorruptedMetadata")
        ELSE IF s2.res # "none" THEN s2
        ELSE IF ~IoSeekOk(f, next) THEN Fail(s2, "FailedToReadImageData")
        ELSE IF length = 0 THEN [s2 EXCEPT !.res = "ok", !.p = next]
        ELSE [s2 EXCEPT !.p = next]

\* One pass of the loop of printStructure with the stream at s.p.  The loop
\* condition tests the header of the pass before: a pass that has read
\* length 0 is the last one.
PrintBoxStep(f, s, opt) ==
    LET hdr == IoRead(f, s.p, boxSize)
        position == s.p + boxSize
        length == getLong(hdr, 0)
        type == getLong(hdr, 4)
        s2 == PrintDispatch(f, s, position, length, type, opt)
        next == position - boxSize + length
    IN  IF Len(hdr) # boxSize THEN [s EXCEPT !.res = "ok", !.p = s.p + Len(hdr)]
        ELSE IF ~EnvelopeOk(f, s.p, length)
             THEN Fail([s EXCEPT !.p = position], "CorruptedMetadata")
        ELSE IF type = kJp2BoxTypeClose THEN [s EXCEPT !.res = "ok", !.p = position]
        ELSE IF s2.res # "none" THEN s2
        ELSE IF ~IoSeekOk(f, next) THEN Fail(s2, "FailedToReadImageData")
        ELSE IF length = 0 THEN [s2 EXCEPT !.res = "ok", !.p = next]
        ELSE [s2 EXCEPT !.p = next]

----------------------------------------------------------------------------
(* Jp2Image::encodeJp2Header. *)

\* The 15 bytes written after the header of the default colour specification
defaultColorPad == <<1, 0, 0, 0, 0, 0, 16, 0, 0, 5, 28, 117, 117, 105, 100>>

\* EncodeColorSpec with four pad bytes in front of the ICC profile
EncodeColorSpecPad4(icc, sublen) ==
    IF ~iccProfileDefined(icc)
    THEN LET stored == ul2Data(15) \o ul2Data(kJp2BoxTypeColorSpec) \o defaultColorPad
         IN  Bytes(stored \o Zeros(sublen - Len(stored)), 0, sublen)
    ELSE ul2Data(boxSize + 4 + Len(icc)) \o ul2Data(kJp2BoxTypeColorSpec)
         \o <<2, 0, 0, 0>> \o icc

\* EncodeColorSpec whose ICC branch stores the length without the 8 bytes of
\* the header: newlen = psize + iccProfile_.size_
EncodeColorSpecShort(icc, sublen) ==
    IF ~iccProfileDefined(icc)
    THEN LET stored == ul2Data(15) \o ul2Data(kJp2BoxTypeColorSpec) \o defaultColorPad
         IN  Bytes(stored \o Zeros(sublen - Len(stored)), 0, sublen)
    ELSE Bytes(ul2Data(3 + Len(icc)) \o ul2Data(kJp2BoxTypeColorSpec)
               \o <<2, 0, 0>> \o icc, 0, 3 + Len(icc))

\* The branch that writes the colour specification sub-box: the bytes that
\* end up in output between outlen and outlen + newlen.  Without an ICC
\* profile newlen stays the length of the sub-box that was read, while the
\* header written says 15 and 8 + 15 bytes are stored; what lies beyond them
\* is the zero-filled buffer.
EncodeColorSpec(icc, sublen) ==
    IF ~iccProfileDefined(icc)
    THEN LET stored == ul2Data(15) \o ul2Data(kJp2BoxTypeColorSpec) \o defaultColorPad
         IN  Bytes(stored \o Zeros(sublen - Len(stored)), 0, sublen)
    ELSE ul2Data(boxSize + 3 + Len(icc)) \o ul2Data(kJp2BoxTypeColorSpec)
         \o <<2, 0, 0>> \o icc

\* EncodeLoop that copies a sub-box that is no colour specification from
\* the start of boxBuf: memcpy(output + outlen, boxBuf, subBox.length)
RECURSIVE EncodeLoopFromStart(_, _, _, _, _, _)
EncodeLoopFromStart(boxBuf, icc, length, count, body, bWroteColor) ==
    IF ~(count < length /\ ~bWroteColor) THEN [res |-> "none", body |-> body]
    ELSE IF ~(boxSize <= length - count) THEN [res |-> "CorruptedMetadata", body |-> body]
    ELSE
    LET sublen == getLong(boxBuf, count)
        subtype == getLong(boxBuf, count + 4)
        capacity == Len(boxBuf) + Len(icc) + 100 - (boxSize + Len(body))
        piece == IF subtype = kJp2BoxTypeColorSpec
                 THEN EncodeColorSpec(icc, sublen)
                 ELSE Bytes(boxBuf, 0, sublen)
    IN  IF ~(sublen > 0) \/ ~(sublen <= length - count)
        THEN [res |-> "CorruptedMetadata", body |-> body]
        ELSE IF ~(Len(piece) <= capacity)
        THEN [res |-> "CorruptedMetadata", body |-> body]
        ELSE EncodeLoopFromStart(boxBuf, icc, length, count + sublen, body \o piece,
                                 subtype = kJp2BoxTypeColorSpec)

\* The while loop: count is the offset of the next sub-box in boxBuf, body
\* the bytes put into output after its first 8.
RECURSIVE EncodeLoop(_, _, _, _, _, _)
EncodeLoop(boxBuf, icc, length, count, body, bWroteColor) ==
    IF ~(count < length /\ ~bWroteColor) THEN [res |-> "none", body |-> body]
    ELSE IF ~(boxSize <= length - count) THEN [res |-> "CorruptedMetadata", body |-> body]
    ELSE
    LET sublen == getLong(boxBuf, count)
        subtype == getLong(boxBuf, count + 4)
        capacity == Len(boxBuf) + Len(icc) + 100 - (boxSize + Len(body))
        piece == IF subtype = kJp2BoxTypeColorSpec
                 THEN EncodeColorSpec(icc, sublen)
                 ELSE Bytes(boxBuf, count, sublen)
    IN  IF ~(sublen > 0) \/ ~(sublen <= length - count)
        THEN [res |-> "CorruptedMetadata", body |-> body]
        ELSE IF ~(Len(piece) <= capacity)
        THEN [res |-> "CorruptedMetadata", body |-> body]
        ELSE EncodeLoop(boxBuf, icc, length, count + sublen, body \o piece,
                        subtype = kJp2BoxTypeColorSpec)

\* encodeJp2Header(boxBuf, outBuf): res and, when res is "none", outBuf
encodeJp2Header(boxBuf, icc) ==
    LET length == getLong(boxBuf, 0)
        r == EncodeLoop(boxBuf, icc, length, boxSize, <<>>, FALSE)
        outlen == boxSize + Len(r.body)
    IN  IF ~(length <= Len(boxBuf) + Len(icc) + 100)
        THEN [res |-> "CorruptedMetadata", buf |-> <<>>]
        ELSE IF r.res # "none" THEN [res |-> r.res, buf |-> <<>>]
        ELSE [res |-> "none",
              buf |-> ul2Data(outlen) \o ul2Data(kJp2BoxTypeHeader) \o r.body]

----------------------------------------------------------------------------
(* Jp2Image::doWriteMetadata. *)

\* A fresh uuid box: length, 'uuid', the UUID, the payload
UuidBox(uuid, payload) ==
    ul2Data(boxSize + uuidSize + Len(payload)) \o ul2Data(kJp2BoxTypeUuid)
    \o uuid \o payload

\* FreshBoxes with the IPTC box written before the Exif box
FreshBoxesIptcFirst(exif, iptc, packet) ==
    (IF iptc # <<>> /\ IptcEncode(iptc) # <<>>
     THEN UuidBox(kJp2UuidIptc, IptcEncode(iptc)) ELSE <<>>)
    \o (IF exif # <<>> /\ ExifEncode(exif) # <<>>
        THEN UuidBox(kJp2UuidExif, ExifEncode(exif)) ELSE <<>>)
    \o (IF Len(packet) > 0 THEN UuidBox(kJp2UuidXmp, packet) ELSE <<>>)

\* FreshBoxes without the test that the XMP packet is not empty
FreshBoxesXmpAlways(exif, iptc, packet) ==
    (IF exif # <<>> /\ ExifEncode(exif) # <<>>
     THEN UuidBox(kJp2UuidExif, ExifEncode(exif)) ELSE <<>>)
    \o (IF iptc # <<>> /\ IptcEncode(iptc) # <<>>
        THEN UuidBox(kJp2UuidIptc, IptcEncode(iptc)) ELSE <<>>)
    \o UuidBox(kJp2UuidXmp, packet)

\* The metadata written just after the JP2 Header box; packet is xmpPacket_
\* as it is after the XMP encoding step.
FreshBoxes(exif, iptc, packet) ==
    (IF exif # <<>> /\ ExifEncode(exif) # <<>>
     THEN UuidBox(kJp2UuidExif, ExifEncode(exif)) ELSE <<>>)
    \o (IF iptc # <<>> /\ IptcEncode(iptc) # <<>>
        THEN UuidBox(kJp2UuidIptc, IptcEncode(iptc)) ELSE <<>>)
    \o (IF Len(packet) > 0 THEN UuidBox(kJp2UuidXmp, packet) ELSE <<>>)

\* xmpPacket_ after "if (writeXmpFromPacket() == false) XmpParser::encode(...)"
PacketToWrite(fromPacket, packet, xmp) == IF fromPacket THEN packet ELSE XmpEncode(xmp)

\* case kJp2BoxTypeHeader
WriteHeader(s, boxBuf, fromPacket) ==
    LET e == encodeJp2Header(boxBuf, s.icc)
        packet == PacketToWrite(fromPacket, s.packet, s.xmp)
    IN  IF e.res # "none" THEN [res |-> e.res, emit |-> <<>>, packet |-> s.packet]
        ELSE [res |-> "none", packet |-> packet,
              emit |-> e.buf \o FreshBoxes(s.exif, s.iptc, packet)]

\* WriteUuid that strips every uuid box, the unrecognised ones too
WriteUuidStripsAll(s, boxBuf) ==
    IF ~(Len(boxBuf) >= 24)
    THEN [res |-> "CorruptedMetadata", emit |-> <<>>, packet |-> s.packet]
    ELSE [res |-> "none", emit |-> <<>>, packet |-> s.packet]

\* WriteUuid that strips the IPTC and XMP boxes and copies the Exif box
WriteUuidKeepsExif(s, boxBuf) ==
    LET uuid == Bytes(boxBuf, boxSize, uuidSize)
    IN  IF ~(Len(boxBuf) >= 24)
        THEN [res |-> "CorruptedMetadata", emit |-> <<>>, packet |-> s.packet]
        ELSE IF uuid = kJp2UuidIptc \/ uuid = kJp2UuidXmp
        THEN [res |-> "none", emit |-> <<>>, packet |-> s.packet]
        ELSE [res |-> "none", emit |-> boxBuf, packet |-> s.packet]

\* WriteUuid that strips the Exif and IPTC boxes and copies the XMP box
WriteUuidKeepsXmp(s, boxBuf) ==
    LET uuid == Bytes(boxBuf, boxSize, uuidSize)
    IN  IF ~(Len(boxBuf) >= 24)
        THEN [res |-> "CorruptedMetadata", emit |-> <<>>, packet |-> s.packet]
        ELSE IF uuid = kJp2UuidExif \/ uuid = kJp2UuidIptc
        THEN [res |-> "none", emit |-> <<>>, packet |-> s.packet]
        ELSE [res |-> "none", emit |-> boxBuf, packet |-> s.packet]

\* case kJp2BoxTypeUuid
WriteUuid(s, boxBuf) ==
    LET uuid == Bytes(boxBuf, boxSize, uuidSize)
    IN  IF ~(Len(boxBuf) >= 24)
        THEN [res |-> "CorruptedMetadata", emit |-> <<>>, packet |-> s.packet]
        ELSE IF uuid = kJp2UuidExif \/ uuid = kJp2UuidIptc \/ uuid = kJp2UuidXmp
        THEN [res |-> "none", emit |-> <<>>, packet |-> s.packet]
        ELSE [res |-> "none", emit |-> boxBuf, packet |-> s.packet]

\* default: the box is copied
WriteOther(s, boxBuf) == [res |-> "none", emit |-> boxBuf, packet |-> s.packet]

\* The switch on box.type
WriteDispatch(s, boxBuf, type, fromPacket) ==
    IF type = kJp2BoxTypeHeader THEN WriteHeader(s, boxBuf, fromPacket)
    ELSE IF type = kJp2BoxTypeUuid THEN WriteUuid(s, boxBuf)
    ELSE WriteOther(s, boxBuf)

\* WriteBoxStep that stores the resolved length in the header of the box
WriteBoxStepPatched(f, s, fromPacket) ==
    LET hdr == IoRead(f, s.p, boxSize)
        tell == s.p + boxSize
        wire == getLong(hdr, 0)
        type == getLong(hdr, 4)
        length == IF wire = 0 THEN Len(f) - tell + 8 ELSE wire
        boxBuf == ul2Data(length) \o ul2Data(type) \o IoRead(f, tell, length - 8)
        d == WriteDispatch(s, boxBuf, type, fromPacket)
        stop(kind) == [res |-> kind, emit |-> <<>>, packet |-> s.packet, p |-> s.p,
                       allocs |-> <<>>]
    IN  IF Len(hdr) # boxSize THEN stop("InputDataReadFailed")
        ELSE IF length < 8 THEN stop("CorruptedMetadata")
        ELSE IF ~(length - 8 <= Len(f) - tell) THEN stop("CorruptedMetadata")
        ELSE IF Len(boxBuf) # length THEN stop("InputDataReadFailed")
        ELSE [res |-> d.res, emit |-> d.emit, packet |-> d.packet,
              p |-> tell + length - 8,
              allocs |-> <<[size |-> length, avail |-> Len(f) - s.p]>>]

\* One pass of the loop of doWriteMetadata with the input at s.p (below the
\* size of the input): res, the bytes written to outIo, the position reached
\* and xmpPacket_.
WriteBoxStep(f, s, fromPacket) ==
    LET hdr == IoRead(f, s.p, boxSize)
        tell == s.p + boxSize
        wire == getLong(hdr, 0)
        type == getLong(hdr, 4)
        length == IF wire = 0 THEN Len(f) - tell + 8 ELSE wire
        boxBuf == hdr \o IoRead(f, tell, length - 8)
        d == WriteDispatch(s, boxBuf, type, fromPacket)
        stop(kind) == [res |-> kind, emit |-> <<>>, packet |-> s.packet, p |-> s.p,
                       allocs |-> <<>>]
    IN  IF Len(hdr) # boxSize THEN stop("InputDataReadFailed")
        ELSE IF length < 8 THEN stop("CorruptedMetadata")
        ELSE IF ~(length - 8 <= Len(f) - tell) THEN stop("CorruptedMetadata")
        ELSE IF Len(boxBuf) # length THEN stop("InputDataReadFailed")
        ELSE [res |-> d.res, emit |-> d.emit, packet |-> d.packet,
              p |-> tell + length - 8,
              allocs |-> <<[size |-> length, avail |-> Len(f) - s.p]>>]

----------------------------------------------------------------------------
(* The lengths of the boxes doWriteMetadata generates, for stores too large  *)
(* to be written out byte by byte.  A size is a number below 2^48 given by   *)
(* three 16-bit digits <<hi, mid, lo>>, worth hi * 2^32 + mid * 2^16 + lo;   *)
(* long has 64 bits and uint32_t 32.                                         *)

WideAdd(w, k) ==
    LET lo == w[3] + k
        mid == w[2] + lo \div 65536
    IN  <<w[1] + mid \div 65536, mid % 65536, lo % 65536>>

WideLeq(a, b) ==
    \/ a[1] < b[1]
    \/ a[1] = b[1] /\ a[2] < b[2]
    \/ a[1] = b[1] /\ a[2] = b[2] /\ a[3] <= b[3]

\* the conversion of a long to uint32_t
ToUint32(w) == <<0, w[2], w[3]>>

\* ul2Data(buf, uint32_t l, bigEndian) on a long
ul2DataWide(w) == <<w[2] \div 256, w[2] % 256, w[3] \div 256, w[3] % 256>>

NoGen == [kind |-> "none", total |-> <<0, 0, 0>>, header |-> 0,
          length |-> <<0, 0, 0, 0>>, res |-> "none"]

\* A new uuid box for an encoding of n bytes: DataBuf boxData(8 + 16 + n),
\* ul2Data(boxDataSize, boxData.size_), write(boxData.pData_, boxData.size_).
\* total is the number of bytes of the box, header the bytes in front of
\* its payload, length the four bytes of its length field.
UuidLengths(n) ==
    LET size == WideAdd(n, boxSize + uuidSize)
    IN  [kind |-> "uuid", total |-> size, header |-> boxSize,
         length |-> ul2DataWide(size), res |-> "none"]

\* encodeJp2Header at the colour specification sub-box, with an ICC profile
\* of n bytes, a boxBuf of insize bytes and copied bytes of sub-boxes already
\* in output: uint32_t newlen = sizeof(newBox) + psize + iccProfile_.size_
ColorNewlen(n) == ToUint32(WideAdd(n, boxSize + 3))

ColorLengths(n, insize, copied) ==
    LET newlen == ColorNewlen(n)
        capacity == WideAdd(n, insize + 100 - (boxSize + copied))
    IN  [kind |-> "colr", total |-> WideAdd(n, boxSize + 3), header |-> boxSize,
         length |-> ul2DataWide(newlen),
         res |-> IF WideLeq(newlen, capacity) THEN "none" ELSE "CorruptedMetadata"]

\* encodeJp2Header at its end: outlen += newlen, ul2Data(&pBox->length, outlen)
HeaderLengths(n, insize, copied) ==
    LET c == ColorLengths(n, insize, copied)
        outlen == WideAdd(ColorNewlen(n), boxSize + copied)
    IN  [kind |-> "jp2h", total |-> WideAdd(n, boxSize + copied + boxSize + 3),
         header |-> boxSize, length |-> ul2DataWide(outlen), res |-> c.res]

----------------------------------------------------------------------------
(* The input files. *)

Box(type, payload) == ul2Data(boxSize + Len(payload)) \o ul2Data(type) \o payload

\* the box types 'free' and 'res ', which the program has no case for
typeFree == getLong(<<102, 114, 101, 101>>, 0)
typeRes == getLong(<<114, 101, 115, 32>>, 0)

FileTypeBox == Box(kJp2BoxTypeFileTypeBox, brandJp2 \o <<0, 0, 0, 0>> \o brandJp2)
ImageHeaderBox == Box(kJp2BoxTypeImageHeader, <<0, 0, 0, 1, 0, 0, 0, 2, 0, 1, 7, 7, 0, 0>>)
ColorEnumBox == Box(kJp2BoxTypeColorSpec, <<1, 0, 0, 0, 0, 0, 17>>)
IccBytes == <<0, 0, 0, 8, 1, 2, 3, 4>>
ColorIccBox == Box(kJp2BoxTypeColorSpec, <<2, 0, 0>> \o IccBytes)
ResBox == Box(typeRes, <<4>>)
HeaderEnum == Box(kJp2BoxTypeHeader, ImageHeaderBox \o ColorEnumBox \o ResBox)
HeaderIcc == Box(kJp2BoxTypeHeader, ImageHeaderBox \o ColorIccBox)
ExifBox == UuidBox(kJp2UuidExif, TiffHeaderMM \o <<5>>)
IptcBox == UuidBox(kJp2UuidIptc, <<28, 6>>)
XmpBox == UuidBox(kJp2UuidXmp, <<32, 60, 7, 62>>)
UnknownUuid == <<1, 1, 1, 1, 1, 1, 1, 1, 1, 1, 1, 1, 1, 1, 1, 1>>
UnknownBox == UuidBox(UnknownUuid, <<9, 9>>)
FreeBox == Box(typeFree, <<3>>)
\* a codestream box with length 0 on the wire: it extends to the end of the file
CodestreamBox == <<0, 0, 0, 0>> \o ul2Data(kJp2BoxTypeClose) \o <<255, 79>>
\* a box that declares 4 bytes, less than its header
ShortBox == ul2Data(4) \o ul2Data(typeFree)
\* a box that declares 30 bytes and brings 8
LongBox == ul2Data(30) \o ul2Data(typeFree)

Palette == {HeaderEnum, HeaderIcc, ExifBox, IptcBox, XmpBox, UnknownBox, FreeBox,
            CodestreamBox, ShortBox, LongBox}

Prefixes == {Jp2Signature \o FileTypeBox}

Tails == {<<>>, <<0, 0, 0>>}

RECURSIVE Concat(_)
Concat(ss) == IF ss = <<>> THEN <<>> ELSE Head(ss) \o Concat(Tail(ss))

BoxLists == UNION {[1..k -> Palette] : k \in 0..MaxBoxes}

InputFiles == {p \o Concat(bs) \o t : p \in Prefixes, bs \in BoxLists, t \in Tails}

----------------------------------------------------------------------------
(* The operations of the image object. *)

\* The record of a finished operation.
Rec(op, res, inp, outp, s, w) ==
    [op |-> op, res |-> res, inp |-> inp, outp |-> outp,
     exif |-> s.exif, iptc |-> s.iptc, xmp |-> s.xmp, packet |-> s.packet,
     icc |-> s.icc, pw |-> s.pw, ph |-> s.ph, walk |-> w, p |-> s.p]

Ops == {h \in 1..Len(hist) : hist[h].op \in {"read", "write"}}

\* The embedder calls one operation after the other and stops at the first
\* that throws.
CanStart ==
    /\ pc = "idle"
    /\ Len(hist) < MaxOps
    /\ err \in {"none", "ok"}

LastOp == IF hist = <<>> THEN "none" ELSE hist[Len(hist)].op

SetImage(s) ==
    /\ exifData' = s.exif
    /\ iptcData' = s.iptc
    /\ xmpData' = s.xmp
    /\ xmpPacket' = s.packet
    /\ iccProfile' = s.icc
    /\ pixelWidth' = s.pw
    /\ pixelHeight' = s.ph
    /\ byteOrder' = s.bo

SetReadLocals(s) ==
    /\ boxes' = s.boxes
    /\ lastBoxTypeRead' = s.last
    /\ boxSignatureFound' = s.sig
    /\ boxFileTypeFound' = s.ftyp
    /\ ihdr' = s.ihdr

\* ReadOpen with a call of clearMetadata() in front of the walk
ReadOpenClears ==
    /\ CanStart
    /\ LastOp # "read"
    /\ LET t == isJp2Type(file, 0, FALSE)
       IN  IF t.matched
           THEN /\ pc' = "read"
                /\ isopen' = TRUE
                /\ pos' = t.p
                /\ UNCHANGED <<err, hist>>
           ELSE /\ pc' = "idle"
                /\ isopen' = FALSE
                /\ pos' = t.p
                /\ err' = "NotAnImage"
                /\ hist' = Append(hist, Rec("read", "NotAnImage", file, file,
                                            [Carry EXCEPT !.p = t.p], <<>>))
    /\ boxes' = 0
    /\ lastBoxTypeRead' = 0
    /\ boxSignatureFound' = FALSE
    /\ boxFileTypeFound' = FALSE
    /\ ihdr' = Zeros(ihdrSize)
    /\ walk' = <<>>
    /\ exifData' = <<>>
    /\ iptcData' = <<>>
    /\ xmpData' = <<>>
    /\ xmpPacket' = <<>>
    /\ iccProfile' = <<>>
    /\ pixelWidth' = 0
    /\ pixelHeight' = 0
    /\ byteOrder' = "invalid"
    /\ UNCHANGED <<file, writeXmpFromPacket, out, option, gen>>

\* readMetadata up to the loop: open, IoCloser, isJp2Type(*io_, false)
ReadOpen ==
    /\ CanStart
    /\ LastOp # "read"
    /\ LET t == isJp2Type(file, 0, FALSE)
       IN  IF t.matched
           THEN /\ pc' = "read"
                /\ isopen' = TRUE
                /\ pos' = t.p
                /\ UNCHANGED <<err, hist>>
           ELSE /\ pc' = "idle"
                /\ isopen' = FALSE
                /\ pos' = t.p
                /\ err' = "NotAnImage"
                /\ hist' = Append(hist, Rec("read", "NotAnImage", file, file,
                                            [Carry EXCEPT !.p = t.p], <<>>))
    /\ boxes' = 0
    /\ lastBoxTypeRead' = 0
    /\ boxSignatureFound' = FALSE
    /\ boxFileTypeFound' = FALSE
    /\ ihdr' = Zeros(ihdrSize)
    /\ walk' = <<>>
    /\ UNCHANGED <<file, writeXmpFromPacket, out, option, gen, imageVars>>

\* One pass of the top-level loop of readMetadata
ReadBox ==
    /\ pc = "read"
    /\ LET s == ReadBoxStep(file, Carry)
           hdr == IoRead(file, pos, boxSize)
           w == IF Len(hdr) = boxSize /\ boxes_check(boxes, boxem)
                THEN Append(walk, [start |-> pos, length |-> getLong(hdr, 0),
                                   type |-> getLong(hdr, 4), sub |-> s.sub,
                                   allocs |-> s.allocs, calls |-> s.calls])
                ELSE walk
       IN  /\ SetImage(s)
           /\ SetReadLocals(s)
           /\ walk' = w
           /\ pos' = s.p
           /\ IF s.res = "none"
              THEN UNCHANGED <<pc, isopen, err, hist>>
              ELSE /\ pc' = "idle"
                   /\ isopen' = FALSE
                   /\ err' = s.res
                   /\ hist' = Append(hist, Rec("read", s.res, file, file, s, w))
    /\ UNCHANGED <<file, writeXmpFromPacket, out, option, gen>>

\* writeMetadata and doWriteMetadata up to the loop: open, IoCloser, the
\* temporary MemIo, isJp2Type(*io_, true), the signature written
WriteOpen ==
    /\ CanStart
    /\ LastOp # "write"
    /\ LET t == isJp2Type(file, 0, TRUE)
           kind == IF Len(file) < 12 THEN "InputDataReadFailed" ELSE "NoImageInInputData"
       IN  IF t.matched
           THEN /\ pc' = "write"
                /\ isopen' = TRUE
                /\ pos' = t.p
                /\ out' = Jp2Signature
                /\ UNCHANGED <<err, hist>>
           ELSE /\ pc' = "idle"
                /\ isopen' = FALSE
                /\ pos' = t.p
                /\ out' = <<>>
                /\ err' = kind
                /\ hist' = Append(hist, Rec("write", kind, file, file,
                                            [Carry EXCEPT !.p = t.p], <<>>))
    /\ UNCHANGED <<file, writeXmpFromPacket, option, gen, walk, imageVars, readLocals>>

\* WriteBox that writes into the stream of the image: what is written when
\* a pass fails stays there
WriteBoxInPlace ==
    /\ pc = "write"
    /\ IF pos < Len(file)
       THEN LET r == WriteBoxStep(file, Carry, writeXmpFromPacket)
            IN  /\ xmpPacket' = r.packet
                /\ pos' = r.p
                /\ IF r.res = "none"
                   THEN /\ out' = out \o r.emit
                        /\ UNCHANGED <<pc, isopen, err, hist>>
                   ELSE /\ out' = out
                        /\ file' = out
                        /\ pc' = "idle"
                        /\ isopen' = FALSE
                        /\ err' = r.res
                        /\ hist' = Append(hist, Rec("write", r.res, file, file,
                                             [Carry EXCEPT !.packet = r.packet, !.p = r.p],
                                             <<>>))
                /\ (r.res = "none" => file' = file)
       ELSE /\ file' = out
            /\ pc' = "idle"
            /\ isopen' = FALSE
            /\ err' = "ok"
            /\ hist' = Append(hist, Rec("write", "ok", file, out, Carry, <<>>))
            /\ UNCHANGED <<pos, out, xmpPacket>>
    /\ UNCHANGED <<writeXmpFromPacket, option, gen, walk, readLocals, exifData, iptcData, xmpData,
                   iccProfile, pixelWidth, pixelHeight, byteOrder>>

\* One pass of the loop of doWriteMetadata; when the input is exhausted,
\* io_->close() and io_->transfer(*tempIo)
WriteBox ==
    /\ pc = "write"
    /\ IF pos < Len(file)
       THEN LET r == WriteBoxStep(file, Carry, writeXmpFromPacket)
            IN  /\ xmpPacket' = r.packet
                /\ pos' = r.p
                /\ IF r.res = "none"
                   THEN /\ out' = out \o r.emit
                        /\ UNCHANGED <<pc, isopen, err, hist>>
                   ELSE /\ out' = out
                        /\ pc' = "idle"
                        /\ isopen' = FALSE
                        /\ err' = r.res
                        /\ hist' = Append(hist, Rec("write", r.res, file, file,
                                             [Carry EXCEPT !.packet = r.packet, !.p = r.p],
                                             <<>>))
                /\ UNCHANGED file
       ELSE /\ file' = out
            /\ pc' = "idle"
            /\ isopen' = FALSE
            /\ err' = "ok"
            /\ hist' = Append(hist, Rec("write", "ok", file, out, Carry, <<>>))
            /\ UNCHANGED <<pos, out, xmpPacket>>
    /\ UNCHANGED <<writeXmpFromPacket, option, gen, walk, readLocals, exifData, iptcData, xmpData,
                   iccProfile, pixelWidth, pixelHeight, byteOrder>>

\* the options of printStructure that write no table text
PrintOptions == {"kpsNone", "kpsXMP", "kpsIccProfile", "kpsIptcErase"}

\* printStructure up to the loop: open, isJp2Type(*io_, false).  There is no
\* IoCloser: the stream stays open however the function is left.
PrintOpen ==
    /\ CanStart
    /\ LastOp # "print"
    /\ \E opt \in PrintOptions :
        LET t == isJp2Type(file, 0, FALSE)
            kind == IF ~t.matched
                    THEN IF Len(file) < 12 THEN "FailedToReadImageData" ELSE "NotAJpeg"
                    ELSE "ok"
        IN  /\ option' = opt
            /\ isopen' = TRUE
            /\ pos' = t.p
            /\ IF t.matched /\ opt # "kpsNone"
               THEN /\ pc' = "print"
                    /\ UNCHANGED <<err, hist>>
               ELSE /\ pc' = "idle"
                    /\ err' = kind
                    /\ hist' = Append(hist, Rec("print", kind, file, <<>>,
                                                [Carry EXCEPT !.p = t.p], <<>>))
    /\ out' = <<>>
    /\ walk' = <<>>
    /\ boxSignatureFound' = FALSE
    /\ UNCHANGED <<file, writeXmpFromPacket, gen, imageVars, boxes, lastBoxTypeRead,
                   boxFileTypeFound, ihdr>>

\* One pass of the loop of printStructure
PrintBox ==
    /\ pc = "print"
    /\ LET s == PrintBoxStep(file, PrintCarry, option)
           hdr == IoRead(file, pos, boxSize)
           w == IF Len(hdr) = boxSize
                THEN Append(walk, [start |-> pos, length |-> getLong(hdr, 0),
                                   type |-> getLong(hdr, 4), sub |-> s.sub,
                                   allocs |-> <<>>])
                ELSE walk
       IN  /\ walk' = w
           /\ pos' = s.p
           /\ out' = out \o s.emit
           /\ boxSignatureFound' = s.sig
           /\ IF s.res = "none"
              THEN UNCHANGED <<pc, err, hist>>
              ELSE /\ pc' = "idle"
                   /\ err' = s.res
                   /\ hist' = Append(hist, Rec("print", s.res, file, out \o s.emit,
                                               [Carry EXCEPT !.p = s.p], w))
    /\ UNCHANGED <<file, isopen, writeXmpFromPacket, option, gen, imageVars, boxes,
                   lastBoxTypeRead, boxFileTypeFound, ihdr>>

\* The sizes of the stores: around 2^16, 2^32 and 2^32 + 2^16
GenSizes == {<<hi, mid, lo>> : hi \in 0..1, mid \in {0, 1, 65535},
                               lo \in {1, 16, 65493, 65512, 65524, 65535}}

\* The bytes of the sub-boxes in front of the colour specification: none, or
\* an Image Header sub-box
GenCopied == {0, boxSize + ihdrSize}

GenFrame ==
    UNCHANGED <<file, pos, isopen, pc, writeXmpFromPacket, err, imageVars, readLocals,
                out, option, walk, hist>>

\* doWriteMetadata, case kJp2BoxTypeHeader: a new uuid box
GenerateUuid ==
    /\ pc = "idle"
    /\ \E n \in GenSizes : gen' = UuidLengths(n)
    /\ GenFrame

\* encodeJp2Header: the new colour specification sub-box
GenerateColor ==
    /\ pc = "idle"
    /\ \E n \in GenSizes, copied \in GenCopied :
          gen' = ColorLengths(n, boxSize + copied + 15, copied)
    /\ GenFrame

\* encodeJp2Header: the re-encoded JP2 Header box
GenerateHeader ==
    /\ pc = "idle"
    /\ \E n \in GenSizes, copied \in GenCopied :
          gen' = HeaderLengths(n, boxSize + copied + 15, copied)
    /\ GenFrame

\* newJp2Instance(io, false): a new image object on the same stream
Reopen ==
    /\ CanStart
    /\ LastOp = "write"
    /\ exifData' = <<>>
    /\ iptcData' = <<>>
    /\ xmpData' = <<>>
    /\ xmpPacket' = <<>>
    /\ iccProfile' = <<>>
    /\ pixelWidth' = 0
    /\ pixelHeight' = 0
    /\ byteOrder' = "invalid"
    /\ writeXmpFromPacket' = FALSE
    /\ hist' = Append(hist, Rec("open", "ok", file, file,
                                [Carry EXCEPT !.exif = <<>>, !.iptc = <<>>, !.xmp = <<>>,
                                              !.packet = <<>>, !.icc = <<>>, !.pw = 0,
                                              !.ph = 0], <<>>))
    /\ UNCHANGED <<file, pos, isopen, pc, err, out, option, gen, walk, readLocals>>

\* Image::writeXmpFromPacket(true), called before the first operation
SetWriteXmpFromPacket ==
    /\ pc = "idle"
    /\ hist = <<>>
    /\ ~writeXmpFromPacket
    /\ writeXmpFromPacket' = TRUE
    /\ UNCHANGED <<file, pos, isopen, pc, err, out, option, gen, walk, hist, imageVars,
                   readLocals>>

Init ==
    /\ file \in InputFiles
    /\ pos = 0
    /\ isopen = FALSE
    /\ pc = "idle"
    /\ writeXmpFromPacket = FALSE
    /\ err = "none"
    /\ exifData = <<>>
    /\ iptcData = <<>>
    /\ xmpData = <<>>
    /\ xmpPacket = <<>>
    /\ iccProfile = <<>>
    /\ pixelWidth = 0
    /\ pixelHeight = 0
    /\ byteOrder = "invalid"
    /\ boxes = 0
    /\ lastBoxTypeRead = 0
    /\ boxSignatureFound = FALSE
    /\ boxFileTypeFound = FALSE
    /\ ihdr = Zeros(ihdrSize)
    /\ out = <<>>
    /\ option = "kpsNone"
    /\ gen = NoGen
    /\ walk = <<>>
    /\ hist = <<>>

Next ==
    \/ ReadOpen
    \/ ReadBox
    \/ WriteOpen
    \/ WriteBox
    \/ Reopen
    \/ SetWriteXmpFromPacket

Spec == Init /\ [][Next]_vars

----------------------------------------------------------------------------
(* Streams that put the order, the lengths and the number of the boxes to   *)
(* the test.                                                                *)

\* a box that says it extends to the end of the stream: length 0 on the wire
BoxToEnd(type, payload) == <<0, 0, 0, 0>> \o ul2Data(type) \o payload

\* a File Type box declaring 4 bytes
ShortFileTypeBox == ul2Data(4) \o ul2Data(kJp2BoxTypeFileTypeBox)
FileTypeToEnd == BoxToEnd(kJp2BoxTypeFileTypeBox, brandJp2 \o <<0, 0, 0, 0>> \o brandJp2)
SignatureToEnd == BoxToEnd(kJp2BoxTypeSignature, <<13, 10, 135, 10>>)
IptcToEnd == BoxToEnd(kJp2BoxTypeUuid, kJp2UuidIptc \o <<28, 6>>)
UnknownToEnd == BoxToEnd(kJp2BoxTypeUuid, UnknownUuid \o <<9, 9>>)

\* an Image Header sub-box 4 wide and 3 high whose compression type is 5
BadImageHeaderBox ==
    Box(kJp2BoxTypeImageHeader, <<0, 0, 0, 3, 0, 0, 0, 4, 0, 1, 7, 5, 0, 0>>)
HeaderBadC == Box(kJp2BoxTypeHeader, BadImageHeaderBox \o ColorEnumBox)
HeaderTwoIhdr == Box(kJp2BoxTypeHeader, ImageHeaderBox \o BadImageHeaderBox)

\* a codestream box with length 1 on the wire and the extended length 16
XLBox == ul2Data(1) \o ul2Data(kJp2BoxTypeClose) \o <<0, 0, 0, 0>> \o ul2Data(16)

WalkPalette == {FileTypeBox, ShortFileTypeBox, FileTypeToEnd, Jp2Signature,
                SignatureToEnd, IptcBox, IptcToEnd, UnknownToEnd, HeaderEnum,
                HeaderBadC, HeaderTwoIhdr, XLBox, FreeBox}

WalkLists == UNION {[1..k -> WalkPalette] : k \in 0..MaxBoxes}

WalkFiles == {Jp2Signature \o Concat(bs) : bs \in WalkLists}

\* a new image object on a stream
NewImage ==
    /\ pos = 0
    /\ isopen = FALSE
    /\ pc = "idle"
    /\ writeXmpFromPacket = FALSE
    /\ err = "none"
    /\ exifData = <<>>
    /\ iptcData = <<>>
    /\ xmpData = <<>>
    /\ xmpPacket = <<>>
    /\ iccProfile = <<>>
    /\ pixelWidth = 0
    /\ pixelHeight = 0
    /\ byteOrder = "invalid"
    /\ boxes = 0
    /\ lastBoxTypeRead = 0
    /\ boxSignatureFound = FALSE
    /\ boxFileTypeFound = FALSE
    /\ ihdr = Zeros(ihdrSize)
    /\ out = <<>>
    /\ option = "kpsNone"
    /\ gen = NoGen
    /\ walk = <<>>
    /\ hist = <<>>

InitWalk == file \in WalkFiles /\ NewImage

SpecWalk == InitWalk /\ [][Next]_vars

\* a Color Spec sub-box of the enumerated kind that names colourspace 18
BadColorEnumBox == Box(kJp2BoxTypeColorSpec, <<1, 0, 0, 0, 0, 0, 18>>)
HeaderBadEnum == Box(kJp2BoxTypeHeader, ImageHeaderBox \o BadColorEnumBox)

\* a Color Spec sub-box whose profile says 12 bytes and brings 8
ColorIccOverBox == Box(kJp2BoxTypeColorSpec, <<2, 0, 0, 0, 0, 0, 12, 1, 2, 3, 4>>)
HeaderIccOver == Box(kJp2BoxTypeHeader, ImageHeaderBox \o ColorIccOverBox \o ResBox)

\* a Color Spec sub-box whose profile says 0x7FFFFFFF bytes
ColorIccHugeBox == Box(kJp2BoxTypeColorSpec, <<2, 0, 0, 127, 255, 255, 255, 1>>)
HeaderIccHuge == Box(kJp2BoxTypeHeader, ImageHeaderBox \o ColorIccHugeBox \o ResBox)

\* a codestream box that states its length
JpcBox == Box(kJp2BoxTypeClose, <<255, 79>>)

PrintPalette == {FileTypeBox, HeaderEnum, HeaderIcc, HeaderBadEnum, HeaderBadC,
                 HeaderIccOver, HeaderIccHuge, JpcBox, IptcBox, XmpBox,
                 CodestreamBox, FreeBox}

PrintLists == UNION {[1..k -> PrintPalette] : k \in 0..MaxBoxes}

\* streams that do not start with the signature: one too short for it, one
\* that starts with the File Type box, one with a signature box of other
\* content
NoSignatureFiles ==
    {<<0, 0, 0, 12>>,
     FileTypeBox \o IptcBox,
     Box(kJp2BoxTypeSignature, <<13, 10, 135, 11>>) \o FileTypeBox \o IptcBox}

\* streams for the two read-only walks
PrintFiles == {Jp2Signature \o Concat(bs) : bs \in PrintLists} \cup NoSignatureFiles

InitPrint == file \in PrintFiles /\ NewImage

\* readMetadata and printStructure
NextPrint ==
    \/ ReadOpen
    \/ ReadBox
    \/ PrintOpen
    \/ PrintBox

SpecPrint == InitPrint /\ [][NextPrint]_vars

\* streams of few boxes, and streams without signature
FewFiles ==
    {Jp2Signature \o Concat(bs) : bs \in UNION {[1..k -> PrintPalette] : k \in 0..MaxFew}}
        \cup NoSignatureFiles

InitAll == file \in FewFiles /\ NewImage

\* every operation of the image
NextAll ==
    \/ ReadOpen
    \/ ReadBox
    \/ WriteOpen
    \/ WriteBox
    \/ PrintOpen
    \/ PrintBox
    \/ Reopen
    \/ SetWriteXmpFromPacket

SpecAll == InitAll /\ [][NextAll]_vars

\* an empty box 'free'
EmptyFreeBox == Box(typeFree, <<>>)

\* n times the box b
Repeat(b, n) == [i \in 1..(n * Len(b)) |-> b[((i - 1) % Len(b)) + 1]]

\* the signature box, the File Type box and empty boxes up to n top-level
\* boxes in all
ManyBoxes(n) == Jp2Signature \o FileTypeBox \o Repeat(EmptyFreeBox, n - 2)

\* streams of about boxem top-level boxes
CeilingFiles == {ManyBoxes(n) : n \in (boxem - 1)..(boxem + MaxOver)}

\* readMetadata on ManyBoxes(n) after k passes of its loop, 2 < k <= n: the
\* signature box, the File Type box and k - 2 empty boxes are read, which
\* leaves the image as it was and counts k boxes
BoxesRead(f, k) ==
    /\ file = f
    /\ pos = Len(ManyBoxes(k))
    /\ isopen = TRUE
    /\ pc = "read"
    /\ writeXmpFromPacket = FALSE
    /\ err = "none"
    /\ exifData = <<>>
    /\ iptcData = <<>>
    /\ xmpData = <<>>
    /\ xmpPacket = <<>>
    /\ iccProfile = <<>>
    /\ pixelWidth = 0
    /\ pixelHeight = 0
    /\ byteOrder = "invalid"
    /\ boxes = k
    /\ lastBoxTypeRead = typeFree
    /\ boxSignatureFound = TRUE
    /\ boxFileTypeFound = TRUE
    /\ ihdr = Zeros(ihdrSize)
    /\ out = <<>>
    /\ option = "kpsNone"
    /\ gen = NoGen
    /\ hist = <<>>
    /\ walk = [i \in 1..k |->
                 IF i = 1
                 THEN [start |-> 0, length |-> Len(Jp2Signature),
                       type |-> kJp2BoxTypeSignature, sub |-> <<>>, allocs |-> <<>>,
                       calls |-> <<>>]
                 ELSE IF i = 2
                 THEN [start |-> Len(Jp2Signature), length |-> Len(FileTypeBox),
                       type |-> kJp2BoxTypeFileTypeBox, sub |-> <<>>,
                       allocs |-> <<[size |-> Len(FileTypeBox) - boxSize,
                                     avail |-> Len(file) - Len(Jp2Signature) - boxSize]>>,
                       calls |-> <<>>]
                 ELSE [start |-> Len(ManyBoxes(i - 1)), length |-> Len(EmptyFreeBox),
                       type |-> typeFree, sub |-> <<>>, allocs |-> <<>>,
                       calls |-> <<>>]]

\* JP2 Header boxes with the colour specification at every place, and with
\* none
HeaderNoColor == Box(kJp2BoxTypeHeader, ImageHeaderBox \o ResBox)
HeaderColorFirst == Box(kJp2BoxTypeHeader, ColorEnumBox \o ImageHeaderBox)
HeaderResFirst ==
    Box(kJp2BoxTypeHeader, ResBox \o ImageHeaderBox \o ColorIccBox \o ResBox)
HeaderTwoColor ==
    Box(kJp2BoxTypeHeader, ImageHeaderBox \o ColorIccBox \o ColorEnumBox)
HeaderOnlyImage == Box(kJp2BoxTypeHeader, ImageHeaderBox)

\* a 'res ' sub-box that declares the length 0, behind the colour specification
HeaderZeroAfter ==
    Box(kJp2BoxTypeHeader, ImageHeaderBox \o ColorEnumBox \o ul2Data(0) \o ul2Data(typeRes))

HeaderPalette == {HeaderEnum, HeaderIcc, HeaderNoColor, HeaderColorFirst,
                  HeaderResFirst, HeaderTwoColor, HeaderOnlyImage, HeaderIccOver,
                  HeaderZeroAfter}

HeaderTails == {<<>>, FreeBox, IptcBox, CodestreamBox}

HeaderFiles == {Jp2Signature \o FileTypeBox \o h \o t :
                    h \in HeaderPalette, t \in HeaderTails}

InitHeader == file \in HeaderFiles /\ NewImage

SpecHeader == InitHeader /\ [][Next]_vars

\* Exif and XMP uuid boxes by the shape of their payload.  Exif: a TIFF
\* stream; a byte, "Exif\0\0" and a TIFF stream; three bytes and "Exif\0\0"
\* at the very end; 8 bytes; 9 bytes with neither marker nor "Exif\0\0".
\* XMP: a packet behind a blank; a packet; two blanks; nothing.
UuidPalette ==
    {ExifBox,
     UuidBox(kJp2UuidExif, <<9>> \o exifHeader \o TiffHeaderII \o <<6>>),
     UuidBox(kJp2UuidExif, <<9, 9, 9>> \o exifHeader),
     UuidBox(kJp2UuidExif, TiffHeaderII),
     UuidBox(kJp2UuidExif, <<9, 9, 9, 9, 9, 9, 9, 9, 9>>),
     XmpBox,
     UuidBox(kJp2UuidXmp, <<60, 7, 62>>),
     UuidBox(kJp2UuidXmp, <<32, 32>>),
     UuidBox(kJp2UuidXmp, <<>>)}

UuidFiles ==
    {Jp2Signature \o FileTypeBox \o Concat(bs) :
         bs \in UNION {[1..k -> UuidPalette] : k \in 0..(MaxFew + 1)}}

InitUuid == file \in UuidFiles /\ NewImage

\* The lengths alone, on an image object that has not been used
InitSizes == file = Jp2Signature /\ NewImage

NextSizes ==
    \/ GenerateUuid
    \/ GenerateColor
    \/ GenerateHeader

SpecSizes == InitSizes /\ [][NextSizes]_vars

\* A read starts on a new image; the states in which all but the last boxes
\* below the ceiling are read are states of these reads, and are given here
\* as well.
InitCeiling ==
    \/ file \in CeilingFiles /\ NewImage
    \/ \E f \in CeilingFiles : BoxesRead(f, boxem - 1)

\* k top-level boxes as in ManyBoxes, a JP2 Header box with two sub-boxes and
\* n empty boxes behind it: k + 1 + 2 + n boxes in all
HeaderAt(k, n) == ManyBoxes(k) \o HeaderIcc \o Repeat(EmptyFreeBox, n)

\* streams of fewer than boxem boxes with the JP2 Header box 100 boxes below
\* the ceiling
CountFiles == {HeaderAt(boxem - 100, n) : n \in 49..(48 + MaxOver)}

\* A read from the start, and its states in which the boxes in front of the
\* JP2 Header box are read
InitCount ==
    \/ file \in CountFiles /\ NewImage
    \/ \E f \in CountFiles : BoxesRead(f, boxem - 100)

\* readMetadata alone
NextRead ==
    \/ ReadOpen
    \/ ReadBox

SpecCeiling == InitCeiling /\ [][NextRead]_vars

SpecUuid == InitUuid /\ [][NextRead]_vars

SpecCount == InitCount /\ [][NextRead]_vars

----------------------------------------------------------------------------
(* The box structure of a file, read off its bytes: what the claims are     *)
(* stated in.                                                               *)

\* The top-level boxes that follow the signature, each as its bytes; a box
\* with length 0 on the wire extends to the end of the file.  The list ends
\* where no further well-formed box starts.
RECURSIVE BoxesFrom(_, _)
BoxesFrom(f, p) ==
    IF p + 8 > Len(f) THEN <<>>
    ELSE LET wire == getLong(f, p)
             n == IF wire = 0 THEN Len(f) - p ELSE wire
         IN  IF n < 8 \/ p + n > Len(f) THEN <<>>
             ELSE <<Bytes(f, p, n)>> \o BoxesFrom(f, p + n)

TopBoxes(f) == BoxesFrom(f, 12)

\* the boxes account for every byte after the signature
Tiled(f) == Len(f) >= 12 /\ Len(Concat(TopBoxes(f))) = Len(f) - 12

TypeOf(b) == getLong(b, 4)
IsHeaderBox(b) == TypeOf(b) = kJp2BoxTypeHeader
UuidOf(b) == Bytes(b, 8, 16)
IsUuidBoxOf(b, uuid) == TypeOf(b) = kJp2BoxTypeUuid /\ UuidOf(b) = uuid
MetadataUuids == {kJp2UuidExif, kJp2UuidIptc, kJp2UuidXmp}
IsMetadataBox(b) == \E u \in MetadataUuids : IsUuidBoxOf(b, u)
IsKeptBox(b) == ~IsHeaderBox(b) /\ ~IsMetadataBox(b)

Count(seq, P(_)) == Cardinality({i \in 1..Len(seq) : P(seq[i])})

\* the last finished operation
Last == hist[Len(hist)]
Finished(op) == pc = "idle" /\ hist # <<>> /\ Last.op = op
Succeeded(op) == Finished(op) /\ Last.res = "ok"

\* what a store encodes to at the end of a write
EncodingOf(h, uuid) ==
    IF uuid = kJp2UuidExif THEN ExifEncode(h.exif)
    ELSE IF uuid = kJp2UuidIptc THEN IptcEncode(h.iptc)
    ELSE h.packet

----------------------------------------------------------------------------
(* C1 *)

\* C1: when write_metadata succeeds, the top-level boxes of the output that
\* are neither jp2h nor a metadata uuid box are, byte for byte and in the
\* same order, the top-level boxes of the input that are neither jp2h nor a
\* metadata uuid box; input and output consist of whole boxes.
C1_CopiedVerbatim ==
    Succeeded("write") =>
        /\ Tiled(Last.inp)
        /\ Tiled(Last.outp)
        /\ SelectSeq(TopBoxes(Last.outp), IsKeptBox)
               = SelectSeq(TopBoxes(Last.inp), IsKeptBox)

C1_Witness ==
    /\ Succeeded("write")
    /\ LET A == TopBoxes(Last.inp)
       IN  /\ Count(A, IsHeaderBox) = 1
           /\ Count(A, IsMetadataBox) >= 1
           /\ \E i, j \in 1..Len(A) :
                  /\ i < j
                  /\ TypeOf(A[i]) = kJp2BoxTypeFileTypeBox
                  /\ IsUuidBoxOf(A[j], UnknownUuid)

----------------------------------------------------------------------------
(* C2 *)

\* C2: when write_metadata succeeds, every top-level uuid box of the output
\* that carries the Exif, IPTC or XMP UUID is the box freshly encoded from
\* the image state; a store whose encoding is empty has no box in the output.
C2_OnlyFreshMetadata ==
    Succeeded("write") =>
        \A i \in 1..Len(TopBoxes(Last.outp)) : \A u \in MetadataUuids :
            LET b == TopBoxes(Last.outp)[i]
            IN  IsUuidBoxOf(b, u) =>
                    /\ EncodingOf(Last, u) # <<>>
                    /\ b = UuidBox(u, EncodingOf(Last, u))

\* a write that met a jp2h box and an Exif box while the Exif store was empty
C2_Witness ==
    /\ Succeeded("write")
    /\ Last.exif = <<>>
    /\ Count(TopBoxes(Last.inp), IsHeaderBox) >= 1
    /\ \E i \in 1..Len(TopBoxes(Last.inp)) :
           IsUuidBoxOf(TopBoxes(Last.inp)[i], kJp2UuidExif)
    /\ Count(TopBoxes(Last.outp), IsHeaderBox) >= 1

----------------------------------------------------------------------------
(* C3 *)

\* the fresh boxes a finished write has to show after each jp2h box, as a list
ExpectedFresh(h) ==
    LET one(u) == IF EncodingOf(h, u) # <<>> THEN <<UuidBox(u, EncodingOf(h, u))>>
                  ELSE <<>>
    IN  one(kJp2UuidExif) \o one(kJp2UuidIptc) \o one(kJp2UuidXmp)

\* C3: when write_metadata succeeds, every jp2h box of the output is followed
\* at once by the fresh Exif, IPTC and XMP boxes, in this order, one for each
\* store whose encoding is not empty, and the box after them is no metadata
\* uuid box.
C3_FreshAfterHeader ==
    Succeeded("write") =>
        LET B == TopBoxes(Last.outp)
            F == ExpectedFresh(Last)
        IN  \A i \in 1..Len(B) :
                IsHeaderBox(B[i]) =>
                    /\ i + Len(F) <= Len(B)
                    /\ \A k \in 1..Len(F) : B[i + k] = F[k]
                    /\ i + Len(F) + 1 <= Len(B) => ~IsMetadataBox(B[i + Len(F) + 1])

\* a write with two stores filled that met a jp2h box
C3_Witness ==
    /\ Succeeded("write")
    /\ Len(ExpectedFresh(Last)) >= 2
    /\ LET B == TopBoxes(Last.outp)
       IN  \E i \in 1..Len(B) :
               /\ IsHeaderBox(B[i])
               /\ IsMetadataBox(B[i + 1])
               /\ IsMetadataBox(B[i + 2])

----------------------------------------------------------------------------
(* C4 *)

\* the indices of the top-level boxes of f that are uuid boxes with this UUID
BoxesOf(f, u) == {i \in 1..Len(TopBoxes(f)) : IsUuidBoxOf(TopBoxes(f)[i], u)}

\* the place of a store's fresh box behind the jp2h box
Rank(h, u) ==
    Cardinality({v \in MetadataUuids :
                    /\ EncodingOf(h, v) # <<>>
                    /\ \/ v = u
                       \/ v = kJp2UuidExif
                       \/ v = kJp2UuidIptc /\ u = kJp2UuidXmp})

\* exactly one box with the UUID of each filled store, behind a jp2h box
OneBoxPerStore(h) ==
    \A u \in MetadataUuids :
        EncodingOf(h, u) # <<>> =>
            /\ Cardinality(BoxesOf(h.outp, u)) = 1
            /\ \A i \in BoxesOf(h.outp, u) :
                   /\ i - Rank(h, u) >= 1
                   /\ IsHeaderBox(TopBoxes(h.outp)[i - Rank(h, u)])

\* C4 as claimed: when write_metadata succeeds, the output holds exactly one
\* uuid box for every store whose encoding is not empty, right behind jp2h,
\* whatever the number of jp2h boxes of the input.
C4_Claimed == Succeeded("write") => OneBoxPerStore(Last)

\* C4 amended: when write_metadata succeeds on an input with exactly one jp2h
\* box, the output holds exactly one uuid box for every store whose encoding
\* is not empty, behind the jp2h box at the place its rank in the order Exif,
\* IPTC, XMP gives it.
C4_OneBoxPerStore ==
    (Succeeded("write") /\ Count(TopBoxes(Last.inp), IsHeaderBox) = 1)
        => OneBoxPerStore(Last)

\* a write on an input with one jp2h box and an XMP box, the XMP store filled
C4_Witness ==
    /\ Succeeded("write")
    /\ Count(TopBoxes(Last.inp), IsHeaderBox) = 1
    /\ Last.packet # <<>>
    /\ BoxesOf(Last.inp, kJp2UuidXmp) # {}
    /\ BoxesOf(Last.outp, kJp2UuidXmp) # {}

----------------------------------------------------------------------------
(* C5 *)

\* hist[i] is a read that succeeded and hist[i + 1] a write that succeeded
ReadThenWrite(i) ==
    /\ i + 1 <= Len(hist)
    /\ hist[i].op = "read" /\ hist[i].res = "ok"
    /\ hist[i + 1].op = "write" /\ hist[i + 1].res = "ok"

\* hist[j] is the first read after the write hist[i + 1], on the same image
\* object or on a new one opened on the written stream
ReadBack(i, j) ==
    /\ j <= Len(hist)
    /\ hist[j].op = "read"
    /\ \/ j = i + 2
       \/ j = i + 3 /\ hist[i + 2].op = "open"

SameStores(g, h) == g.exif = h.exif /\ g.iptc = h.iptc /\ g.xmp = h.xmp

\* C5: after a read and a write that both succeed, a read of the written
\* stream that succeeds leaves the Exif, IPTC and XMP stores the first read
\* left.
C5_RoundTrip ==
    \A i, j \in 1..Len(hist) :
        (ReadThenWrite(i) /\ ReadBack(i, j) /\ hist[j].res = "ok")
            => SameStores(hist[i], hist[j])

----------------------------------------------------------------------------
(* C6 *)

\* hist[k] and hist[k + 1] are the read and the write that follow the write
\* hist[i + 1], on the same image object or on a new one
Again(i, k) ==
    /\ ReadThenWrite(k)
    /\ \/ k = i + 2
       \/ k = i + 3 /\ hist[i + 2].op = "open"

\* C6: when a read and a write succeed and a read and a write of the written
\* stream succeed too, the second write leaves the bytes the first one left.
C6_Idempotent ==
    \A i, k \in 1..Len(hist) :
        (ReadThenWrite(i) /\ Again(i, k)) => hist[k + 1].outp = hist[i + 1].outp

\* two rounds of read and write on a stream with an ICC profile and an Exif
\* box, the first write having changed the bytes
C6_Witness ==
    \E i, k \in 1..Len(hist) :
        /\ ReadThenWrite(i)
        /\ Again(i, k)
        /\ hist[i + 1].outp # hist[i + 1].inp
        /\ hist[i].icc # <<>>
        /\ hist[i].exif # <<>>

----------------------------------------------------------------------------
(* C7 *)

\* hist[i] is a read that succeeded on a stream without metadata uuid boxes
\* and left no ICC profile, and hist[i + 1] the write that followed
PlainRound(i) ==
    /\ ReadThenWrite(i)
    /\ Count(TopBoxes(hist[i].inp), IsMetadataBox) = 0
    /\ hist[i].icc = <<>>

----------------------------------------------------------------------------
(* C8 *)

\* the top-level box header walk[k] of a finished read declares more bytes
\* than the stream holds from the start of the box
Overlong(h, k) == h.walk[k].length > Len(h.inp) - h.walk[k].start

\* C8: a read that meets a top-level box header declaring a length greater
\* than the number of bytes from the start of the box to the end of the
\* stream stops at this header with CorruptedMetadata, the stream position
\* within the stream.
C8_OverlongRejected ==
    Finished("read") =>
        \A k \in 1..Len(Last.walk) :
            Overlong(Last, k) =>
                /\ k = Len(Last.walk)
                /\ Last.res = "CorruptedMetadata"
                /\ Last.p = Last.walk[k].start + boxSize
                /\ Last.p <= Len(Last.inp)

\* a read that walked three boxes and met an overlong header behind them
C8_Witness ==
    /\ Finished("read")
    /\ Len(Last.walk) >= 4
    /\ Overlong(Last, Len(Last.walk))
    /\ Last.walk[Len(Last.walk)].type = typeFree
    /\ Last.res = "CorruptedMetadata"

----------------------------------------------------------------------------
(* C9 *)

\* C9: a read that meets a top-level box header declaring a length that is
\* not zero and smaller than the header stops at this header with
\* CorruptedMetadata.
C9_ShortRejected ==
    Finished("read") =>
        \A k \in 1..Len(Last.walk) :
            (Last.walk[k].length > 0 /\ Last.walk[k].length < boxSize) =>
                /\ k = Len(Last.walk)
                /\ Last.res = "CorruptedMetadata"

----------------------------------------------------------------------------
(* C10 *)

\* the length of the box walk[k] of a finished read, a length of zero on the
\* wire standing for the rest of the stream
Extent(h, k) ==
    IF h.walk[k].length = 0 THEN Len(h.inp) - h.walk[k].start ELSE h.walk[k].length

\* C10: when a read succeeds, the first box it walked starts at offset 0,
\* each further box starts where the box before it ended, and the last box
\* ends at the end of the stream.
C10_WalkTiles ==
    (Finished("read") /\ Last.res = "ok") =>
        /\ Last.walk # <<>>
        /\ Last.walk[1].start = 0
        /\ \A k \in 1..(Len(Last.walk) - 1) :
               Last.walk[k + 1].start = Last.walk[k].start + Extent(Last, k)
        /\ Last.walk[Len(Last.walk)].start + Extent(Last, Len(Last.walk))
               = Len(Last.inp)

----------------------------------------------------------------------------
(* C11 *)

\* C11: when a read succeeds, every sub-box header that the sub-box loop of
\* a jp2h box has read lies within the jp2h box, behind its header and before
\* its end.
C11_SubBoxesInside ==
    (Finished("read") /\ Last.res = "ok") =>
        \A k \in 1..Len(Last.walk) :
            LET b == Last.walk[k]
            IN  \A n \in 1..Len(b.sub) :
                    /\ b.start + boxSize <= b.sub[n].start
                    /\ b.sub[n].start + boxSize <= b.start + b.length

----------------------------------------------------------------------------
(* C12 *)

\* every buffer of the list was asked for with at most the bytes left
Bounded(allocs) == \A n \in 1..Len(allocs) : allocs[n].size <= allocs[n].avail

\* C12: every buffer that a read or a pass of the write loop asks for with a
\* size taken from a length field of the stream (File Type payload, Color
\* Spec data, uuid payload, the whole box in the write loop) has at most the
\* size of the bytes left in the stream.
C12_AllocBounded ==
    /\ Finished("read") => \A k \in 1..Len(Last.walk) : Bounded(Last.walk[k].allocs)
    /\ (pc = "write" /\ pos < Len(file)) =>
           Bounded(WriteBoxStep(file, Carry, writeXmpFromPacket).allocs)

----------------------------------------------------------------------------
(* C13 *)

\* C13: a read succeeds only if the first box it walked is the Signature
\* box, and a read that meets a box of the Signature type behind the first
\* box ends with CorruptedMetadata.
C13_OneSignature ==
    Finished("read") =>
        /\ Last.res = "ok" =>
               (Last.walk # <<>> /\ Last.walk[1].type = kJp2BoxTypeSignature)
        /\ \A k \in 2..Len(Last.walk) :
               Last.walk[k].type = kJp2BoxTypeSignature
                   => Last.res = "CorruptedMetadata"

----------------------------------------------------------------------------
(* C14 *)

\* C14: a read that meets a box of the File Type type anywhere but right
\* behind the Signature box, a second File Type box included, ends with
\* CorruptedMetadata.
C14_FileTypeSecond ==
    Finished("read") =>
        \A k \in 1..Len(Last.walk) :
            (/\ Last.walk[k].type = kJp2BoxTypeFileTypeBox
             /\ ~(k = 2 /\ Last.walk[1].type = kJp2BoxTypeSignature))
                => Last.res = "CorruptedMetadata"

----------------------------------------------------------------------------
(* C15 *)

\* C15: a read that meets, right behind the Signature box, a box whose type
\* is not ftyp stops at this box with CorruptedMetadata, without reading
\* sub-boxes or payload of it.
C15_FileTypeMandatory ==
    (/\ Finished("read")
     /\ Len(Last.walk) >= 2
     /\ Last.walk[1].type = kJp2BoxTypeSignature
     /\ Last.walk[2].type # kJp2BoxTypeFileTypeBox)
        => /\ Last.res = "CorruptedMetadata"
           /\ Len(Last.walk) = 2
           /\ Last.walk[2].sub = <<>>
           /\ Last.walk[2].allocs = <<>>

\* the number of top-level boxes of a stream of CeilingFiles, the signature
\* box included
TopLevelCount(f) == CHOOSE n \in (boxem - 1)..(boxem + MaxOver) : f = ManyBoxes(n)

\* C16: a read of a stream with more than boxem top-level boxes fails with
\* CorruptedMetadata (1001 boxes are already too many), and a read of a
\* well-formed stream of at most boxem top-level boxes without jp2h succeeds.
C16_Ceiling ==
    (Finished("read") /\ Last.inp \in CeilingFiles)
        => (Last.res = "CorruptedMetadata" <=> TopLevelCount(Last.inp) > boxem)

\* the walk entry e of the stream f is a box with length 1 on the wire whose
\* extended length follows the header and keeps the box inside the stream
HasExtendedLength(f, e) ==
    /\ e.length = 1
    /\ e.start + 2 * boxSize <= Len(f)
    /\ Bytes(f, e.start + boxSize, 4) = Zeros(4)
    /\ getLong(f, e.start + boxSize + 4) >= 2 * boxSize
    /\ e.start + getLong(f, e.start + boxSize + 4) <= Len(f)

\* C17: a read that meets a box with length 1 and an extended length that
\* resolves within the stream goes on at box start + extended length: the
\* next header is read there, and when the box ends the stream the read
\* succeeds.
C17_ExtendedLength ==
    Finished("read") =>
        \A i \in 1..Len(Last.walk) :
            LET e == Last.walk[i]
                next == e.start + getLong(Last.inp, e.start + boxSize + 4)
            IN  HasExtendedLength(Last.inp, e) =>
                    /\ i < Len(Last.walk) => Last.walk[i + 1].start = next
                    /\ next = Len(Last.inp) => Last.res = "ok"

\* C18: a read that meets a uuid box with length 0 on the wire takes the rest
\* of the stream as this box and dispatches it: when it carries the Exif,
\* IPTC or XMP UUID and a payload that decodes, the read leaves the decoded
\* payload in the store of that kind.
C18_ToEndDispatched ==
    Finished("read") =>
        \A i \in 1..Len(Last.walk) :
            LET e == Last.walk[i]
                from == e.start + boxSize + uuidSize
                uuid == Bytes(Last.inp, e.start + boxSize, uuidSize)
                rawData == Bytes(Last.inp, from, Len(Last.inp) - from)
            IN  (e.length = 0 /\ e.type = kJp2BoxTypeUuid /\ from <= Len(Last.inp)) =>
                    /\ (uuid = kJp2UuidExif /\ TiffDecode(rawData) # <<>>)
                           => Last.exif = TiffDecode(rawData)
                    /\ (uuid = kJp2UuidIptc /\ IptcDecode(rawData) # <<>>)
                           => Last.iptc = IptcDecode(rawData)
                    /\ (uuid = kJp2UuidXmp /\ XmpDecode(rawData) # <<>>)
                           => Last.xmp = XmpDecode(rawData)

\* the bytes of the input from the read position to its end
Rest == Bytes(file, pos, Len(file) - pos)

\* the next pass of the loop of a write reads a header with length 0
AtBoxToEnd == pc = "write" /\ pos + boxSize <= Len(file) /\ getLong(file, pos) = 0

\* C19: a pass of the loop of write_metadata that reads a header with length
\* 0 takes all remaining bytes of the input as the box: the position reaches
\* the end of the input, so that the loop ends; a box that is neither jp2h
\* nor a metadata uuid box is appended to the output with all these bytes,
\* header as read, and a metadata uuid box is dropped with all of them.
C19_ToEndWritten ==
    [][AtBoxToEnd =>
           /\ pc' = "write" => pos' = Len(file)
           /\ ~IsHeaderBox(Rest) => pc' = "write"
           /\ IsKeptBox(Rest) => out' = out \o Rest
           /\ IsMetadataBox(Rest) => out' = out]_vars

\* a write has copied a final box with length 0 that is not a metadata box,
\* and is at the end of its input
C19_Witness ==
    /\ pc = "write"
    /\ pos = Len(file)
    /\ Tiled(file)
    /\ TopBoxes(file) # <<>>
    /\ LET b == TopBoxes(file)[Len(TopBoxes(file))]
       IN  /\ getLong(b, 0) = 0
           /\ IsKeptBox(b)
           /\ Len(b) > boxSize
           /\ Bytes(out, Len(out) - Len(b), Len(b)) = b

\* the sub-box entry e of a walk of the stream f is an Image Header box that
\* holds a compression type, and this is not 7
BadCompression(f, e) ==
    /\ e.type = kJp2BoxTypeImageHeader
    /\ e.length >= boxSize + 12
    /\ e.start + boxSize + ihdrSize <= Len(f)
    /\ f[e.start + boxSize + 12] # 7

\* C20: a read that meets an Image Header sub-box whose compression type is
\* not 7 fails with CorruptedMetadata at this sub-box, and pixel_width and
\* pixel_height are what they were before the sub-box was read.
C20_BadCompression ==
    Finished("read") =>
        \A i \in 1..Len(Last.walk) :
            \A j \in 1..Len(Last.walk[i].sub) :
                LET e == Last.walk[i].sub[j]
                IN  BadCompression(Last.inp, e) =>
                        /\ Last.res = "CorruptedMetadata"
                        /\ i = Len(Last.walk)
                        /\ j = Len(Last.walk[i].sub)
                        /\ Last.pw = e.pw
                        /\ Last.ph = e.ph

\* a read has failed at an Image Header sub-box with a bad compression type
\* after an earlier one had set the width and the height, and the image
\* keeps these and not those of the bad sub-box
C20_Witness ==
    /\ Finished("read")
    /\ Last.res = "CorruptedMetadata"
    /\ Last.walk # <<>>
    /\ LET sub == Last.walk[Len(Last.walk)].sub
       IN  /\ sub # <<>>
           /\ BadCompression(Last.inp, sub[Len(sub)])
           /\ Last.pw # 0
           /\ Last.pw = sub[Len(sub)].pw
           /\ Last.pw # getLong(Last.inp, sub[Len(sub)].start + boxSize + 4)

\* the last finished operation was a walk of the stream
Walked == Finished("read") \/ Finished("print")

\* the sub-box entry e of a walk of the stream f is a Color Spec box of the
\* enumerated kind whose colourspace is neither 16 nor 17
BadEnumCS(f, e) ==
    /\ e.type = kJp2BoxTypeColorSpec
    /\ e.length >= boxSize + 7
    /\ e.start + e.length <= Len(f)
    /\ f[e.start + boxSize + 1] = 1
    /\ getLong(f, e.start + boxSize + 3) \notin {16, 17}

\* C21: a walk of the stream, by read_metadata or by print_structure, that
\* meets a Color Spec sub-box of the enumerated kind with a colourspace other
\* than 16 and 17 fails with CorruptedMetadata.
C21_BadEnumRejected ==
    Walked =>
        \A i \in 1..Len(Last.walk) :
            \A j \in 1..Len(Last.walk[i].sub) :
                BadEnumCS(Last.inp, Last.walk[i].sub[j]) => Last.res = "CorruptedMetadata"

\* the sub-box entry e of a walk of the stream f is a Color Spec box that
\* carries an ICC profile
IccSpec(f, e) ==
    /\ e.type = kJp2BoxTypeColorSpec
    /\ e.length >= boxSize + 7
    /\ e.start + e.length <= Len(f)
    /\ f[e.start + boxSize + 1] # 1

\* the length the profile of the Color Spec sub-box e declares
IccLengthOf(f, e) == getLong(f, e.start + boxSize + 3)

\* C22: a read that meets a Color Spec sub-box whose profile declares more
\* bytes than the payload of the sub-box holds behind the three pad bytes
\* (3 + icc_length > length - 8) fails with CorruptedMetadata, so that a
\* profile taken from a sub-box lies inside its payload.
C22_IccInside ==
    Finished("read") =>
        \A i \in 1..Len(Last.walk) :
            \A j \in 1..Len(Last.walk[i].sub) :
                LET e == Last.walk[i].sub[j]
                IN  (IccSpec(Last.inp, e) /\ IccLengthOf(Last.inp, e) > e.length - boxSize - 3)
                        => Last.res = "CorruptedMetadata"

\* this step starts the operation op on the image
Starts(op) ==
    /\ pc = "idle"
    /\ \/ pc' = op
       \/ Len(hist') = Len(hist) + 1 /\ hist'[Len(hist')].op = op

\* the stream does not start with the 12 bytes of the signature
NoSignature == Bytes(file, 0, 12) # Jp2Signature

\* C23: a read of a stream that does not start with the signature ends in
\* the step that starts it, with NotAnImage, without a box header decoded
\* and with the Exif, IPTC, XMP, ICC and pixel-size state unchanged.
C23_NotAnImage ==
    [][(Starts("read") /\ NoSignature) =>
           /\ pc' = "idle"
           /\ err' = "NotAnImage"
           /\ walk' = <<>>
           /\ UNCHANGED imageVars]_vars

\* a read has failed with NotAnImage on a stream that holds boxes but no
\* signature
C23_Witness ==
    /\ Finished("read")
    /\ Last.res = "NotAnImage"
    /\ Last.walk = <<>>
    /\ Len(Last.inp) > 12
    /\ Bytes(Last.inp, 0, 12) # Jp2Signature

\* C24: isJp2Type leaves the stream where it was when advance is false
\* (read_metadata, print_structure) or the signature does not match, a
\* stream of fewer than 12 bytes included, and 12 bytes further when advance
\* is true (write_metadata) and the signature matches.  Every operation
\* calls it at position 0.
C24_PositionKept ==
    [][/\ (Starts("read") \/ Starts("print")) => pos' = 0
       /\ Starts("write") => pos' = IF NoSignature THEN 0 ELSE 12]_vars

\* C25: when read_metadata, write_metadata or print_structure has ended,
\* with success or with an error, the stream it opened is closed.
C25_ClosedAtEnd ==
    (Finished("read") \/ Finished("write") \/ Finished("print")) => ~isopen

\* the walk entry e of the stream f is a jp2c box of non-zero length that
\* ends inside the stream
SizedCodestream(f, e) ==
    e.type = kJp2BoxTypeClose /\ e.length # 0 /\ e.start + e.length <= Len(f)

\* the walk entry e of the stream f is a whole uuid box with this UUID
UuidEntry(f, e, uuid) ==
    /\ e.type = kJp2BoxTypeUuid
    /\ e.length >= boxSize + uuidSize
    /\ e.start + e.length <= Len(f)
    /\ Bytes(f, e.start + boxSize, uuidSize) = uuid

PayloadOf(f, e) ==
    Bytes(f, e.start + boxSize + uuidSize, e.length - boxSize - uuidSize)

\* a is not empty and b ends with a
IsSuffix(a, b) == a # <<>> /\ Len(a) <= Len(b) /\ Bytes(b, Len(b) - Len(a), Len(a)) = a

\* C26: the header of a jp2c box is the last one print_structure decodes;
\* read_metadata goes on behind a jp2c box of non-zero length, at box start +
\* length, decodes the header there, and when this is the last box and an
\* IPTC or XMP uuid box of a read that succeeds, its payload is decoded into
\* the IPTC store or its end becomes the XMP packet.
C26_CodestreamStops ==
    /\ Finished("print") =>
           \A i \in 1..Len(Last.walk) :
               Last.walk[i].type = kJp2BoxTypeClose => i = Len(Last.walk)
    /\ Finished("read") =>
           \A i \in 1..Len(Last.walk) :
               LET e == Last.walk[i]
                   next == e.start + e.length
               IN  SizedCodestream(Last.inp, e) =>
                       /\ next + boxSize <= Len(Last.inp) => i < Len(Last.walk)
                       /\ i < Len(Last.walk) => Last.walk[i + 1].start = next
                       /\ (i + 1 = Len(Last.walk) /\ Last.res = "ok") =>
                              LET u == Last.walk[i + 1]
                              IN  /\ UuidEntry(Last.inp, u, kJp2UuidIptc)
                                         => Last.iptc = IptcDecode(PayloadOf(Last.inp, u))
                                  /\ UuidEntry(Last.inp, u, kJp2UuidXmp)
                                         => IsSuffix(Last.packet, PayloadOf(Last.inp, u))

\* print_structure has stopped at a jp2c box with an IPTC box behind it, and
\* read_metadata has then walked both and decoded the IPTC box
C26_Witness ==
    /\ Finished("read")
    /\ Last.res = "ok"
    /\ Len(hist) >= 2
    /\ hist[Len(hist) - 1].op = "print"
    /\ hist[Len(hist) - 1].res = "ok"
    /\ LET pw == hist[Len(hist) - 1].walk
           n == Len(pw)
       IN  /\ n >= 1
           /\ SizedCodestream(Last.inp, pw[n])
           /\ Len(Last.walk) = n + 1
           /\ UuidEntry(Last.inp, Last.walk[n + 1], kJp2UuidIptc)
           /\ Last.iptc # <<>>

----------------------------------------------------------------------------
(* C27 *)

\* C27: every box the write generates (a new uuid box, the new colour
\* specification sub-box, the re-encoded JP2 Header box) has a header of 8
\* bytes; when its total length does not fit the 32-bit length field the
\* write fails with ImageTooLarge, and otherwise the length field holds the
\* total length, never a wrapped one.
C27_TooLarge ==
    gen.kind # "none" =>
        /\ gen.header = boxSize
        /\ (gen.total[1] > 0 => gen.res = "ImageTooLarge")
        /\ (gen.res = "none" => gen.total[1] = 0 /\ gen.length = ul2DataWide(gen.total))

----------------------------------------------------------------------------
(* C28 *)

\* the sub-boxes of a JP2 Header box, each as its bytes
SubBoxes(b) == BoxesFrom(b, boxSize)
HeaderPayload(b) == Bytes(b, boxSize, Len(b) - boxSize)
IsColorBox(b) == TypeOf(b) = kJp2BoxTypeColorSpec

\* the place of the first colour specification among the sub-boxes, 0 for none
FirstColor(subs) ==
    IF \E i \in 1..Len(subs) : IsColorBox(subs[i])
    THEN CHOOSE i \in 1..Len(subs) :
             IsColorBox(subs[i]) /\ \A k \in 1..(i - 1) : ~IsColorBox(subs[k])
    ELSE 0

\* hist[j] is a write that succeeded on a stream whose second box, after the
\* File Type box, is its JP2 Header box, made of whole sub-boxes
HeaderWrite(j) ==
    /\ hist[j].op = "write"
    /\ hist[j].res = "ok"
    /\ LET A == TopBoxes(hist[j].inp)
       IN  /\ Len(A) >= 2
           /\ TypeOf(A[1]) = kJp2BoxTypeFileTypeBox
           /\ IsHeaderBox(A[2])
           /\ Concat(SubBoxes(A[2])) = HeaderPayload(A[2])

HeaderIn(j) == TopBoxes(hist[j].inp)[2]

\* the box that stands in the output where the JP2 Header box stood
HeaderOut(j) ==
    LET B == TopBoxes(hist[j].outp)
    IN  IF Len(B) >= 2 THEN B[2] ELSE <<>>

\* C28: when the JP2 Header box that is re-encoded has no colour
\* specification sub-box, the re-encoded box holds the copied sub-boxes and,
\* after them, at its end, a new colour specification sub-box.
C28_ColorAppended ==
    \A j \in 1..Len(hist) :
        (HeaderWrite(j) /\ FirstColor(SubBoxes(HeaderIn(j))) = 0) =>
            LET old == HeaderPayload(HeaderIn(j))
                new == HeaderPayload(HeaderOut(j))
            IN  /\ IsHeaderBox(HeaderOut(j))
                /\ Len(new) >= Len(old) + boxSize
                /\ Bytes(new, 0, Len(old)) = old
                /\ getLong(new, Len(old) + 4) = kJp2BoxTypeColorSpec

----------------------------------------------------------------------------
(* C29 *)

\* the bytes of the sub-boxes from place a on
SubBoxesFrom(subs, a) == Concat(SubSeq(subs, a, Len(subs)))

\* C29: the sub-boxes that follow the first colour specification sub-box of
\* the JP2 Header box are, byte for byte and in their order, the end of the
\* re-encoded box, behind its new colour specification sub-box.
C29_FollowingCopied ==
    \A j \in 1..Len(hist) :
        (HeaderWrite(j) /\ FirstColor(SubBoxes(HeaderIn(j))) > 0) =>
            LET subs == SubBoxes(HeaderIn(j))
                rest == SubBoxesFrom(subs, FirstColor(subs) + 1)
                new == HeaderPayload(HeaderOut(j))
            IN  /\ IsHeaderBox(HeaderOut(j))
                /\ Len(new) >= Len(rest)
                /\ Bytes(new, Len(new) - Len(rest), Len(rest)) = rest

----------------------------------------------------------------------------
(* C30 *)

\* the bytes of the sub-boxes in front of place a
SubBoxesBefore(subs, a) == Concat(SubSeq(subs, 1, a - 1))

\* C30: the sub-boxes that precede the first colour specification sub-box
\* of the JP2 Header box are, byte for byte and in their order, the start of
\* the payload of the re-encoded box.
C30_PrecedingCopied ==
    \A j \in 1..Len(hist) :
        (HeaderWrite(j) /\ FirstColor(SubBoxes(HeaderIn(j))) > 0) =>
            LET subs == SubBoxes(HeaderIn(j))
                front == SubBoxesBefore(subs, FirstColor(subs))
                new == HeaderPayload(HeaderOut(j))
            IN  /\ IsHeaderBox(HeaderOut(j))
                /\ Bytes(new, 0, Len(front)) = front
                /\ getLong(new, Len(front) + 4) = kJp2BoxTypeColorSpec

\* a write with an ICC profile that re-encoded a JP2 Header box with two
\* sub-boxes in front of its colour specification
C30_Witness ==
    \E j \in 1..Len(hist) :
        /\ HeaderWrite(j)
        /\ FirstColor(SubBoxes(HeaderIn(j))) = 3
        /\ hist[j].icc # <<>>
        /\ HeaderOut(j) # HeaderIn(j)

----------------------------------------------------------------------------
(* C31 *)

\* the colour specification sub-box for an ICC profile
ColorOfIcc(icc) ==
    ul2Data(boxSize + 3 + Len(icc)) \o ul2Data(kJp2BoxTypeColorSpec) \o <<2, 0, 0>> \o icc

\* hist[j] is a write with an ICC profile that re-encoded a JP2 Header box
\* with a colour specification sub-box
IccWrite(j) ==
    /\ HeaderWrite(j)
    /\ FirstColor(SubBoxes(HeaderIn(j))) > 0
    /\ hist[j].icc # <<>>

\* C31: with an ICC profile of n bytes, the colour specification sub-box of
\* the re-encoded JP2 Header box is a header with the length 8 + 3 + n and
\* the type colr, the bytes 02 00 00 and the n bytes of the profile, and
\* nothing of the payload of the sub-box it replaces.
C31_IccColor ==
    \A j \in 1..Len(hist) :
        IccWrite(j) =>
            LET subs == SubBoxes(HeaderIn(j))
                front == SubBoxesBefore(subs, FirstColor(subs))
                new == HeaderPayload(HeaderOut(j))
                color == ColorOfIcc(hist[j].icc)
            IN  /\ Bytes(new, Len(front), Len(color)) = color
                /\ getLong(color, 0) = boxSize + 3 + Len(hist[j].icc)

\* such a write on a JP2 Header box whose colour specification sub-box was
\* another one than the one written
C31_Witness ==
    \E j \in 1..Len(hist) :
        /\ IccWrite(j)
        /\ LET subs == SubBoxes(HeaderIn(j))
           IN  subs[FirstColor(subs)] # ColorOfIcc(hist[j].icc)

----------------------------------------------------------------------------
(* C32 *)

RECURSIVE SumOfLengths(_)
SumOfLengths(subs) ==
    IF subs = <<>> THEN 0 ELSE getLong(Head(subs), 0) + SumOfLengths(Tail(subs))

\* C32: the re-encoded JP2 Header box is well-formed: the length in its
\* header is the number of its bytes and is 8 plus the sum of the lengths
\* that its sub-boxes declare, so that the sub-boxes fill its payload; the
\* default colour specification sub-box takes as many bytes as it declares.
C32_WellFormedHeader ==
    \A j \in 1..Len(hist) :
        HeaderWrite(j) =>
            LET b == HeaderOut(j)
                subs == SubBoxes(b)
            IN  /\ IsHeaderBox(b)
                /\ getLong(b, 0) = Len(b)
                /\ Concat(subs) = HeaderPayload(b)
                /\ getLong(b, 0) = boxSize + SumOfLengths(subs)

----------------------------------------------------------------------------
(* C33 *)

\* walking the sub-boxes of the JP2 Header box b from offset p by the lengths
\* they declare, one declares 0 or more than what is left of the box
RECURSIVE HasBadSubBox(_, _)
HasBadSubBox(b, p) ==
    IF p + boxSize > Len(b) THEN FALSE
    ELSE LET n == getLong(b, p)
         IN  n = 0 \/ n > Len(b) - p \/ HasBadSubBox(b, p + n)

\* C33: a write whose JP2 Header box has, at any place, a sub-box that
\* declares the length 0 or a length beyond the end of the box fails with
\* CorruptedMetadata.
C33_BadSubBoxRejected ==
    \A j \in 1..Len(hist) :
        LET A == TopBoxes(hist[j].inp)
        IN  ( /\ hist[j].op = "write"
              /\ Len(A) >= 2
              /\ TypeOf(A[1]) = kJp2BoxTypeFileTypeBox
              /\ IsHeaderBox(A[2])
              /\ HasBadSubBox(A[2], boxSize) ) => hist[j].res = "CorruptedMetadata"

----------------------------------------------------------------------------
(* C34 *)

\* the pass of readMetadata that is about to run stands at a uuid box with
\* the given UUID, whose payload the stream holds in full
AtUuid(uuid) ==
    /\ pc = "read"
    /\ boxes_check(boxes, boxem)
    /\ Len(IoRead(file, pos, boxSize)) = boxSize
    /\ getLong(file, pos + 4) = kJp2BoxTypeUuid
    /\ getLong(file, pos) >= boxSize + uuidSize
    /\ pos + getLong(file, pos) <= Len(file)
    /\ Bytes(file, pos + boxSize, uuidSize) = uuid

\* the payload of that box
UuidPayload ==
    Bytes(file, pos + boxSize + uuidSize, getLong(file, pos) - (boxSize + uuidSize))

StartsWithMarker(b) == Bytes(b, 0, 2) = <<73, 73>> \/ Bytes(b, 0, 2) = <<77, 77>>

\* the offsets at which pat occurs in b
Occurrences(b, pat) == {i \in 0..(Len(b) - Len(pat)) : Bytes(b, i, Len(pat)) = pat}

\* the bytes of b that follow the first occurrence of pat
AfterFirst(b, pat) ==
    LET i == CHOOSE k \in Occurrences(b, pat) : \A m \in Occurrences(b, pat) : k <= m
    IN  Bytes(b, i + Len(pat), Len(b) - (i + Len(pat)))

\* the decoders the pass just made has invoked
CallsMade == walk'[Len(walk')].calls

\* C34: at an Exif uuid box the TIFF decoder gets the whole payload when it
\* is longer than 8 bytes and starts with II or MM, and else the bytes that
\* follow the first "Exif\0\0" in a payload longer than 8 bytes; with a
\* payload of 8 bytes or fewer no decoder is invoked, the Exif store is
\* emptied and the walk goes on without error.
C34_ExifBytes ==
    [][AtUuid(kJp2UuidExif) =>
           LET P == UuidPayload
           IN  /\ (Len(P) > 8 /\ StartsWithMarker(P)) =>
                       CallsMade = <<[codec |-> "tiff", bytes |-> P]>>
               /\ (Len(P) > 8 /\ ~StartsWithMarker(P) /\ Occurrences(P, exifHeader) # {}) =>
                       CallsMade = <<[codec |-> "tiff", bytes |-> AfterFirst(P, exifHeader)]>>
               /\ Len(P) <= 8 =>
                       /\ CallsMade = <<>>
                       /\ exifData' = <<>>
                       /\ pc' = "read"
                       /\ err' = "none"]_vars

----------------------------------------------------------------------------
(* C35 *)

\* b from its first '<' on; b itself when it has none
Trimmed(b) == IF Occurrences(b, <<60>>) = {} THEN b ELSE <<60>> \o AfterFirst(b, <<60>>)

\* C35: after the pass at an XMP uuid box the XMP packet is the payload
\* without the bytes in front of its first '<', the whole payload when it
\* has no '<', and the XMP decoder has been invoked, on that packet, if and
\* only if the packet is not empty.
C35_XmpPacket ==
    [][AtUuid(kJp2UuidXmp) =>
           /\ xmpPacket' = Trimmed(UuidPayload)
           /\ CallsMade = IF Trimmed(UuidPayload) = <<>> THEN <<>>
                          ELSE <<[codec |-> "xmp", bytes |-> Trimmed(UuidPayload)]>>]_vars

\* a read that has gone through an XMP uuid box and handed the decoder
\* fewer bytes than the payload has
C35_Witness ==
    /\ Finished("read")
    /\ \E i \in 1..Len(walk) :
           /\ walk[i].type = kJp2BoxTypeUuid
           /\ walk[i].calls # <<>>
           /\ walk[i].calls[1].codec = "xmp"
           /\ walk[i].calls[1].bytes = xmpPacket
           /\ 0 < Len(xmpPacket)
           /\ Len(xmpPacket) < walk[i].length - (boxSize + uuidSize)

----------------------------------------------------------------------------
(* C36 *)

\* the sub-boxes the pass just made has read
SubsRead == walk'[Len(walk')].sub

\* a pass of readMetadata that does not end the call moves the position
\* forward by the length of its box
ReadAdvances ==
    (pc = "read" /\ pc' = "read") =>
        /\ pos' > pos
        /\ pos' = pos + getLong(file, pos)
        /\ pos' <= Len(file)

\* the sub-box loop goes strictly forward, and each of its passes counts
\* against the ceiling of the top-level loop
SubBoxesAdvance ==
    (pc = "read" /\ walk' # walk) =>
        /\ \A k \in 1..(Len(SubsRead) - 1) : SubsRead[k + 1].start > SubsRead[k].start
        /\ boxes' = boxes + 1 + Len(SubsRead)
        /\ boxes' <= boxem + 1

\* a pass of doWriteMetadata that does not end the call moves the position
\* forward by at least the 8 bytes of a box header
WriteAdvances ==
    (pc = "write" /\ pc' = "write") => (pos' >= pos + boxSize /\ pos' <= Len(file))

\* C36: readMetadata and writeMetadata terminate: every pass of a top-level
\* loop ends the call or moves the read position strictly forward and not
\* beyond the end of the stream, by the length of the box in readMetadata
\* and by at least 8 bytes in writeMetadata, so that a call makes fewer
\* passes than the stream has bytes; the sub-box loop of readMetadata moves
\* strictly forward too and is bounded by the box counter it shares.
C36_Terminates == [][ReadAdvances /\ SubBoxesAdvance /\ WriteAdvances]_vars

\* a read that went through a JP2 Header box with three sub-boxes and a write
\* that went through two boxes have come to their end
C36_Witness ==
    /\ Finished("write")
    /\ Last.res = "ok"
    /\ Len(hist) >= 2
    /\ hist[Len(hist) - 1].op = "read"
    /\ \E i \in 1..Len(hist[Len(hist) - 1].walk) :
           Len(hist[Len(hist) - 1].walk[i].sub) >= 3
    /\ Len(TopBoxes(Last.inp)) >= 2

----------------------------------------------------------------------------
(* C37 *)

\* the boxes of a stream of CountFiles: top-level boxes and sub-boxes of its
\* JP2 Header box
BoxesIn(f) ==
    boxem - 100 + 1 + 2 + (Len(f) - Len(HeaderAt(boxem - 100, 0))) \div Len(EmptyFreeBox)

\* C37: readMetadata counts a box once against the ceiling: a well-formed
\* stream with at most 1000 boxes, top-level boxes and sub-boxes of the JP2
\* Header box together, is not rejected, wherever its JP2 Header box stands.
C37_CountedOnce ==
    (Finished("read") /\ Last.inp \in CountFiles /\ BoxesIn(Last.inp) <= boxem)
        => Last.res = "ok"

----------------------------------------------------------------------------
(* C38 *)

\* C38: writeMetadata builds the new file in a sink of its own and replaces
\* the stream only when the whole rewrite has succeeded: the stream changes
\* in no other step than the one that ends a write with success, which puts
\* the content of the sink in its place; a write that fails leaves the
\* stream as it was.
C38_AllOrNothing ==
    [][file' # file => (pc = "write" /\ pc' = "idle" /\ err' = "ok" /\ file' = out)]_vars

\* a write that failed after boxes had gone to the sink, the stream still
\* what it was when the write began
C38_Witness ==
    /\ Finished("write")
    /\ Last.res # "ok"
    /\ Len(out) > Len(Jp2Signature)
    /\ file = Last.inp
    /\ Bytes(file, 0, Len(out)) = out

----------------------------------------------------------------------------
(* C39 *)

\* a stream made of whole boxes, none of them a JP2 Header box or an Exif,
\* IPTC or XMP uuid box
PlainFile(f) ==
    /\ Tiled(f)
    /\ Count(TopBoxes(f), IsHeaderBox) = 0
    /\ Count(TopBoxes(f), IsMetadataBox) = 0

\* the state of the image that a finished operation has left
StateOf(h) == <<h.exif, h.iptc, h.xmp, h.packet, h.icc, h.pw, h.ph>>

\* the state of a new image
NewState == <<<<>>, <<>>, <<>>, <<>>, <<>>, 0, 0>>

\* C39: readMetadata does not reset the image by itself: a read that
\* succeeds on a stream without JP2 Header box and without Exif, IPTC or XMP
\* uuid box leaves the Exif, IPTC and XMP stores, the XMP packet, the ICC
\* profile and the pixel size as the operation before it had left them.
C39_StateKept ==
    \A i \in 1..Len(hist) :
        (hist[i].op = "read" /\ hist[i].res = "ok" /\ PlainFile(hist[i].inp)) =>
            StateOf(hist[i]) = IF i = 1 THEN NewState ELSE StateOf(hist[i - 1])

\* such a read on an image that held IPTC data from a read of what the
\* stream was before the write
C39_Witness ==
    \E i \in 2..Len(hist) :
        /\ hist[i].op = "read"
        /\ hist[i].res = "ok"
        /\ PlainFile(hist[i].inp)
        /\ hist[i].iptc # <<>>
        /\ Len(TopBoxes(hist[i].inp)) >= 2

----------------------------------------------------------------------------
(* C40 *)

\* C40: a stream that readMetadata accepts is rewritten by writeMetadata
\* without error: a write that follows a successful read of the same stream
\* succeeds.
C40_ReadableIsWritable ==
    \A i \in 1..(Len(hist) - 1) :
        ( /\ hist[i].op = "read"
          /\ hist[i].res = "ok"
          /\ hist[i + 1].op = "write"
          /\ hist[i + 1].inp = hist[i].inp ) => hist[i + 1].res = "ok"

====
